---------------------------- MODULE Spec2Model ----------------------------
(***************************************************************************)
(* A model of Verstable v1.0.0 (src/verstable.h): an open-addressing hash  *)
(* table whose 16-bit metadata words link the keys of every home bucket    *)
(* into a chain ordered by quadratic displacement.                         *)
(*                                                                         *)
(* The table is instantiated as a map (KEY_TY and VAL_TY are small         *)
(* integers, CMPR_FN is equality).  Two quantities of the source are       *)
(* scaled so that every path of the code is exercised by tables that can   *)
(* be enumerated:                                                          *)
(*   - the displacement field of a metadatum is DisplacementBits wide      *)
(*     (11 in the source), so the displacement limit, which the source     *)
(*     reaches only in chains of 2047 keys, is reached by short chains;    *)
(*   - a 64-bit hash code is represented by the two parts the code reads:  *)
(*     its top four bits (hi) and its low-order bits (lo).                 *)
(* HASH_FN and MAX_LOAD are template parameters of the source; the         *)
(* instantiation is chosen in Init and never changes.                      *)
(***************************************************************************)
EXTENDS Integers, Sequences, FiniteSets, Bags, TLC

VARIABLES
  table,     \* the NAME struct: key_count, bucket_count, metadata, buckets
  ref,       \* reference map run side by side: key -> value, 0 when absent
  last,      \* the most recent API call: its arguments, what it returned, and
             \* the value the reference map had for its key before the call
  fault,     \* "none", or how the execution left defined behaviour
  config,    \* the template instantiation: hash function, MAX_LOAD, allocator
  iter,      \* a first / next / erase_itr loop of the caller in progress
  failures,  \* how many times MALLOC_FN has returned NULL
  clone      \* a second NAME struct, set up by init_clone from table

vars == <<table, ref, last, fault, config, iter, failures, clone>>

----------------------------------------------------------------------------
(* Bounds of the model. *)

MaxKey == 3             \* keys are 0 .. MaxKey
MaxVal == 2             \* values are 1 .. MaxVal
DisplacementBits == 2   \* width of the displacement field (source: 11)
MaxDoublings == 2       \* bucket counts explored: 0, 8, ..., 8 * 2^MaxDoublings
MaxFailures == 1        \* allocation failures injected in one execution
MaxCloneOps == 2         \* calls that change a table while its clone is live
MaxFailVal == 1          \* values inserted in the runs with a failing allocator

Keys == 0 .. MaxKey
Vals == 1 .. MaxVal
FailVals == 1 .. MaxFailVal

NullPtr == 0 - 1
SIZE_MAX == 0 - 2

RECURSIVE Pow2(_)
Pow2(n) == IF n = 0 THEN 1 ELSE 2 * Pow2(n - 1)

\* A local variable that is assigned once: The({e : x \in {v}}) is e with x
\* standing for the value of v, which is computed once.
The(S) == CHOOSE x \in S : TRUE

----------------------------------------------------------------------------
(* Metadata masks and primitives (verstable.h 408-425). *)

VT_EMPTY == 0
VT_DISPLACEMENT_MASK == Pow2(DisplacementBits) - 1
VT_IN_HOME_BUCKET_MASK == Pow2(DisplacementBits)
VT_HASH_FRAG_MASK == 15 * Pow2(DisplacementBits + 1)
VT_MIN_NONZERO_BUCKET_COUNT == 8

\* A metadatum with every bit set: memset( ..., 0xFF, ... ) and the placeholder.
AllBitsSet == VT_HASH_FRAG_MASK + VT_IN_HOME_BUCKET_MASK + VT_DISPLACEMENT_MASK

\* m & VT_DISPLACEMENT_MASK
DisplacementOf(m) == m % (VT_DISPLACEMENT_MASK + 1)
\* m & ~VT_DISPLACEMENT_MASK
ClearDisplacement(m) == m - DisplacementOf(m)
\* m & VT_IN_HOME_BUCKET_MASK
InHomeBucketOf(m) == ((m \div VT_IN_HOME_BUCKET_MASK) % 2) * VT_IN_HOME_BUCKET_MASK
\* m & VT_HASH_FRAG_MASK
HashFragOf(m) == m - (m % (2 * VT_IN_HOME_BUCKET_MASK))
\* m & ~VT_HASH_FRAG_MASK
ClearHashFrag(m) == m % (2 * VT_IN_HOME_BUCKET_MASK)
\* m | VT_DISPLACEMENT_MASK
SetDisplacementMask(m) == ClearDisplacement(m) + VT_DISPLACEMENT_MASK

VT_QUADRATIC(displacement) == (displacement * displacement + displacement) \div 2

\* The top four bits of the hash code, placed in the fragment field.
VT_HASH_FRAG(hash) == hash.hi * (2 * VT_IN_HOME_BUCKET_MASK)

\* hash & ( bucket_count - 1 ) for a power-of-two bucket count.
HomeBucketOf(hash, bucket_count) == hash.lo % bucket_count

----------------------------------------------------------------------------
(* The template instantiation. *)

\* A key object of KEY_TY.  id is what HASH_FN and CMPR_FN read; tag tells
\* apart two key objects that compare equal, so that the model records which
\* of them a bucket stores.
KeyObj(id, tag) == [id |-> id, tag |-> tag]

\* Low-order bits and top four bits of the hash codes of keys 0, 1, 2, ...
\* under the three hash functions of the model: one that spreads the keys
\* over a few home buckets at the start of the array, one whose chains wrap
\* around the end of the array, and one that maps every key to the same hash
\* code.
HashLowSpread == <<0, 8, 16, 1, 3, 9, 11, 24>>
HashHighSpread == <<0, 0, 1, 1, 0, 1, 0, 1>>
HashLowWrap == <<7, 15, 23, 0>>
HashHighWrap == <<0, 1, 0, 1>>

HashOfSpread(key) ==
  [hi |-> HashHighSpread[(key.id % Len(HashHighSpread)) + 1],
   lo |-> HashLowSpread[(key.id % Len(HashLowSpread)) + 1]]

HashOfWrap(key) ==
  [hi |-> HashHighWrap[(key.id % Len(HashHighWrap)) + 1],
   lo |-> HashLowWrap[(key.id % Len(HashLowWrap)) + 1]]

HashOfConstant(key) == [hi |-> 0, lo |-> 0]

HASH_FN(key) ==
  CASE config.hash = "spread" -> HashOfSpread(key)
    [] config.hash = "wrap" -> HashOfWrap(key)
    [] OTHER -> HashOfConstant(key)

\* Two key objects are equal when their ids are: CMPR_FN does not read tag.
CMPR_FN(key_1, key_2) == key_1.id = key_2.id

\* ExceedsMaxLoad letting one key more in.
ExceedsMaxLoad_OneMore(key_count, bucket_count) ==
  (key_count - 1) * config.max_load.den > bucket_count * config.max_load.num

\* key_count > bucket_count * MAX_LOAD, MAX_LOAD being num / den.
ExceedsMaxLoad(key_count, bucket_count) ==
  key_count * config.max_load.den > bucket_count * config.max_load.num

----------------------------------------------------------------------------
(* Tables and iterators. *)


\* The content of a bucket that holds no key: one that was allocated and
\* never written, or one whose metadatum was set to VT_EMPTY.  The code reads
\* the key or value of a bucket only after it has reached the bucket through
\* a non-empty metadatum, so what the bytes of a vacated bucket still hold is
\* not part of the state; the model gives every such bucket this content.
UninitBucket == [key |-> KeyObj(NullPtr, NullPtr), val |-> NullPtr]

\* The table once `bucket`, whose metadatum has just been set to VT_EMPTY,
\* no longer holds a key.
Vacate(t, bucket) ==
  IF t.metadata[bucket] = VT_EMPTY
    THEN [t EXCEPT !.buckets[bucket] = UninitBucket]
    ELSE t

\* static const uint16_t vt_placeholder_metadata_buffer[ 4 ]
vt_placeholder_metadata_buffer == [i \in 0 .. 3 |-> AllBitsSet]

\* NAME_init
InitTable ==
  [key_count |-> 0,
   bucket_count |-> 0,
   metadata |-> vt_placeholder_metadata_buffer,
   buckets |-> <<>>,
   metadata_ptr |-> "placeholder",
   buckets_ptr |-> "null"]

\* NAME_end_itr
end_itr ==
  [data |-> NullPtr, metadatum |-> NullPtr, metadata_end |-> NullPtr, home_bucket |-> 0]

\* NAME_is_end
is_end(itr) == itr.metadatum = itr.metadata_end

\* Mutant: the iterator points at the home bucket of the key, not at the
\* bucket the key is in.
MakeItr_AtHome(t, bucket, home_bucket) ==
  [data |-> home_bucket, metadatum |-> home_bucket,
   metadata_end |-> t.bucket_count, home_bucket |-> home_bucket]

\* An iterator whose home_bucket field names the bucket it points at,
\* whatever chain the bucket belongs to.
MakeItr_HomeIsBucket(t, bucket, home_bucket) ==
  [data |-> bucket, metadatum |-> bucket, metadata_end |-> t.bucket_count,
   home_bucket |-> bucket]

\* An iterator to `bucket`, reached from home_bucket.
MakeItr(t, bucket, home_bucket) ==
  [data |-> bucket, metadatum |-> bucket, metadata_end |-> t.bucket_count,
   home_bucket |-> home_bucket]

NAME_size(t) == t.key_count

NAME_bucket_count(t) == t.bucket_count

----------------------------------------------------------------------------
(* Chain helpers.  A loop that walks a chain is given bucket_count + 1 steps:  *)
(* the next bucket is a function of the current one, so a walk that has not    *)
(* ended by then never ends, and the helper reports that as hang.              *)

RECURSIVE find_first_empty_loop(_, _, _, _)
find_first_empty_loop(t, home_bucket, displacement, linear_displacement) ==
  LET empty == (home_bucket + linear_displacement) % t.bucket_count IN
  IF t.metadata[empty] = VT_EMPTY
    THEN [found |-> TRUE, empty |-> empty, displacement |-> displacement]
    ELSE IF displacement + 1 = VT_DISPLACEMENT_MASK
      THEN [found |-> FALSE, empty |-> empty, displacement |-> displacement + 1]
      ELSE find_first_empty_loop(t, home_bucket, displacement + 1,
                                 linear_displacement + displacement + 1)

\* NAME_find_first_empty
find_first_empty(t, home_bucket) == find_first_empty_loop(t, home_bucket, 1, 1)

RECURSIVE find_insert_location_loop(_, _, _, _, _)
find_insert_location_loop(t, home_bucket, displacement_to_empty, candidate, fuel) ==
  LET displacement == DisplacementOf(t.metadata[candidate]) IN
  IF displacement > displacement_to_empty
    THEN [hang |-> FALSE, bucket |-> candidate]
    ELSE IF fuel = 0
      THEN [hang |-> TRUE, bucket |-> candidate]
      ELSE find_insert_location_loop(
             t, home_bucket, displacement_to_empty,
             (home_bucket + VT_QUADRATIC(displacement)) % t.bucket_count, fuel - 1)

\* NAME_find_insert_location_in_chain
find_insert_location_in_chain(t, home_bucket, displacement_to_empty) ==
  find_insert_location_loop(t, home_bucket, displacement_to_empty, home_bucket,
                            t.bucket_count)

\* The first loop of NAME_evict: the bucket whose link leads to `bucket`.
RECURSIVE evict_find_prev(_, _, _, _, _)
evict_find_prev(t, home_bucket, prev, bucket, fuel) ==
  LET next == (home_bucket + VT_QUADRATIC(DisplacementOf(t.metadata[prev])))
                % t.bucket_count IN
  IF next = bucket
    THEN [hang |-> FALSE, bucket |-> prev]
    ELSE IF fuel = 0
      THEN [hang |-> TRUE, bucket |-> prev]
      ELSE evict_find_prev(t, home_bucket, next, bucket, fuel - 1)

\* NAME_evict: [ok, hang, table].  The key is disconnected from its chain
\* before the search for an empty bucket, and stays disconnected when that
\* search fails.
evict(t, bucket) ==
  LET home_bucket == HomeBucketOf(HASH_FN(t.buckets[bucket].key), t.bucket_count) IN
  The({
    IF p.hang THEN [ok |-> FALSE, hang |-> TRUE, table |-> t]
    ELSE
      LET prev == p.bucket
          t1 == [t EXCEPT
                   !.metadata[prev] = ClearDisplacement(t.metadata[prev])
                                        + DisplacementOf(t.metadata[bucket])]
      IN
      The({
        IF ~fe.found THEN [ok |-> FALSE, hang |-> FALSE, table |-> t1]
        ELSE
          The({
            IF loc.hang THEN [ok |-> FALSE, hang |-> TRUE, table |-> t1]
            ELSE
              LET prev2 == loc.bucket
                  md2 == [t1.metadata EXCEPT
                            ![fe.empty] = HashFragOf(t1.metadata[bucket])
                                            + DisplacementOf(t1.metadata[prev2])]
                  md3 == [md2 EXCEPT
                            ![prev2] = ClearDisplacement(md2[prev2]) + fe.displacement]
              IN [ok |-> TRUE, hang |-> FALSE,
                  table |-> [t1 EXCEPT !.metadata = md3,
                                       !.buckets[fe.empty] = t1.buckets[bucket]]]
            : loc \in {find_insert_location_in_chain(t1, home_bucket,
                                                     fe.displacement)}})
        : fe \in {find_first_empty(t1, home_bucket)}})
    : p \in {evict_find_prev(t, home_bucket, home_bucket, bucket, t.bucket_count)}})

\* The chain search of NAME_insert_raw (unique is false).
RECURSIVE insert_raw_search(_, _, _, _, _)
insert_raw_search(t, home_bucket, bucket, key, fuel) ==
  IF HashFragOf(t.metadata[bucket]) = VT_HASH_FRAG(HASH_FN(key))
     /\ CMPR_FN(t.buckets[bucket].key, key)
    THEN [found |-> TRUE, hang |-> FALSE, bucket |-> bucket]
    ELSE
      LET displacement == DisplacementOf(t.metadata[bucket]) IN
      IF displacement = VT_DISPLACEMENT_MASK
        THEN [found |-> FALSE, hang |-> FALSE, bucket |-> bucket]
        ELSE IF fuel = 0
          THEN [found |-> FALSE, hang |-> TRUE, bucket |-> bucket]
          ELSE insert_raw_search(
                 t, home_bucket,
                 (home_bucket + VT_QUADRATIC(displacement)) % t.bucket_count,
                 key, fuel - 1)

\* Case 1 of NAME_insert_raw: the home bucket is empty or holds a foreign key.
insert_raw_case1(t, key, val, home_bucket, hashfrag) ==
  IF ExceedsMaxLoad(t.key_count + 1, t.bucket_count)
    THEN [itr |-> end_itr, table |-> t, hang |-> FALSE]
    ELSE
      The({
        IF ~ev.ok THEN [itr |-> end_itr, table |-> ev.table, hang |-> ev.hang]
        ELSE
          LET t2 == [ev.table EXCEPT
                       !.buckets[home_bucket] = [key |-> key, val |-> val],
                       !.metadata[home_bucket] =
                          hashfrag + VT_IN_HOME_BUCKET_MASK + VT_DISPLACEMENT_MASK,
                       !.key_count = @ + 1]
          IN [itr |-> MakeItr(t2, home_bucket, home_bucket), table |-> t2,
              hang |-> FALSE]
        : ev \in {IF t.metadata[home_bucket] # VT_EMPTY
                    THEN evict(t, home_bucket)
                    ELSE [ok |-> TRUE, hang |-> FALSE, table |-> t]}})

\* insert_raw_link putting the new key in the home bucket and the key that
\* was there in the empty bucket.
insert_raw_link_AtHead(t, key, val, home_bucket, hashfrag) ==
  IF ExceedsMaxLoad(t.key_count + 1, t.bucket_count)
    THEN [itr |-> end_itr, table |-> t, hang |-> FALSE]
    ELSE
      The({
        IF ~fe.found THEN [itr |-> end_itr, table |-> t, hang |-> FALSE]
        ELSE
          The({
            IF loc.hang THEN [itr |-> end_itr, table |-> t, hang |-> TRUE]
            ELSE
              LET prev == loc.bucket
                  md1 == [t.metadata EXCEPT
                            ![fe.empty] = HashFragOf(t.metadata[home_bucket])
                                            + DisplacementOf(t.metadata[prev])]
                  md2 == [md1 EXCEPT
                            ![prev] = ClearDisplacement(md1[prev]) + fe.displacement]
                  md3 == [md2 EXCEPT
                            ![home_bucket] = ClearHashFrag(md2[home_bucket]) + hashfrag]
                  t2 == [t EXCEPT
                           !.buckets[fe.empty] = t.buckets[home_bucket],
                           !.buckets[home_bucket] = [key |-> key, val |-> val],
                           !.metadata = md3,
                           !.key_count = @ + 1]
              IN [itr |-> MakeItr(t2, home_bucket, home_bucket), table |-> t2,
                  hang |-> FALSE]
            : loc \in {find_insert_location_in_chain(t, home_bucket,
                                                     fe.displacement)}})
        : fe \in {find_first_empty(t, home_bucket)}})

\* Case 2 of NAME_insert_raw after the optional chain search: link the key
\* into the chain of its home bucket.
insert_raw_link(t, key, val, home_bucket, hashfrag) ==
  IF ExceedsMaxLoad(t.key_count + 1, t.bucket_count)
    THEN [itr |-> end_itr, table |-> t, hang |-> FALSE]
    ELSE
      The({
        IF ~fe.found THEN [itr |-> end_itr, table |-> t, hang |-> FALSE]
        ELSE
          The({
            IF loc.hang THEN [itr |-> end_itr, table |-> t, hang |-> TRUE]
            ELSE
              LET prev == loc.bucket
                  md1 == [t.metadata EXCEPT
                            ![fe.empty] = hashfrag + DisplacementOf(t.metadata[prev])]
                  md2 == [md1 EXCEPT
                            ![prev] = ClearDisplacement(md1[prev]) + fe.displacement]
                  t2 == [t EXCEPT
                           !.buckets[fe.empty] = [key |-> key, val |-> val],
                           !.metadata = md2,
                           !.key_count = @ + 1]
              IN [itr |-> MakeItr(t2, fe.empty, home_bucket), table |-> t2,
                  hang |-> FALSE]
            : loc \in {find_insert_location_in_chain(t, home_bucket,
                                                     fe.displacement)}})
        : fe \in {find_first_empty(t, home_bucket)}})

\* Mutant: replacing overwrites the value and keeps the stored key object.
replace_existing_ValueOnly(t, bucket, key, val, replace) ==
  IF replace
    THEN [t EXCEPT !.buckets[bucket].val = val]
    ELSE t

\* The matching key was found in `bucket`: when replace is set, the key and
\* the value of the bucket are overwritten by the arguments.
replace_existing(t, bucket, key, val, replace) ==
  IF replace
    THEN [t EXCEPT !.buckets[bucket] = [key |-> key, val |-> val]]
    ELSE t

\* NAME_insert_raw: [itr, table, hang].
insert_raw(t, key, val, unique, replace) ==
  IF t.bucket_count = 0 THEN [itr |-> end_itr, table |-> t, hang |-> FALSE]
  ELSE
    LET hash == HASH_FN(key)
        home_bucket == HomeBucketOf(hash, t.bucket_count)
        hashfrag == VT_HASH_FRAG(hash)
    IN
    IF InHomeBucketOf(t.metadata[home_bucket]) = 0
      THEN insert_raw_case1(t, key, val, home_bucket, hashfrag)
      ELSE
        The({
          IF s.hang THEN [itr |-> end_itr, table |-> t, hang |-> TRUE]
          ELSE IF s.found
            THEN
              LET t2 == replace_existing(t, s.bucket, key, val, replace)
              IN [itr |-> MakeItr(t2, s.bucket, home_bucket), table |-> t2,
                  hang |-> FALSE]
            ELSE insert_raw_link(t, key, val, home_bucket, hashfrag)
          : s \in {IF unique
                     THEN [found |-> FALSE, hang |-> FALSE, bucket |-> home_bucket]
                     ELSE insert_raw_search(t, home_bucket, home_bucket, key,
                                            t.bucket_count)}})

----------------------------------------------------------------------------
(* Rehash and the public insertion functions. *)

\* What NAME_rehash builds in new_table: zeroed metadata followed by four
\* words with every bit set, and a bucket array that was never written.
NewTable(bucket_count) ==
  [key_count |-> 0,
   bucket_count |-> bucket_count,
   metadata |-> [i \in 0 .. bucket_count + 3 |->
                   IF i < bucket_count THEN VT_EMPTY ELSE AllBitsSet],
   buckets |-> [i \in 0 .. bucket_count - 1 |-> UninitBucket],
   metadata_ptr |-> "heap",
   buckets_ptr |-> "heap"]

\* The for loop of NAME_rehash.  When a reinsertion fails, the code frees the
\* arrays of new_table and executes `continue`, which resumes this for loop:
\* the remaining keys are inserted into the freed arrays.  frees counts the
\* times the new arrays were passed to FREE_FN; uaf records that freed memory
\* was accessed or freed again.  The table computed after a free is the one
\* a build obtains when the freed memory keeps its content.
RECURSIVE rehash_loop(_, _, _, _, _)
rehash_loop(t, new_table, bucket, frees, uaf) ==
  IF bucket = t.bucket_count
    THEN [table |-> new_table, frees |-> frees, uaf |-> uaf, hang |-> FALSE]
    ELSE IF t.metadata[bucket] = VT_EMPTY
      THEN rehash_loop(t, new_table, bucket + 1, frees, uaf)
      ELSE
        LET accessed == uaf \/ frees > 0 IN
        The({
          IF r.hang
            THEN [table |-> r.table, frees |-> frees, uaf |-> accessed, hang |-> TRUE]
            ELSE IF is_end(r.itr)
              THEN rehash_loop(t, r.table, bucket + 1, frees + 1, accessed)
              ELSE rehash_loop(t, r.table, bucket + 1, frees, accessed)
          : r \in {insert_raw(new_table, t.buckets[bucket].key,
                              t.buckets[bucket].val, TRUE, FALSE)}})

\* NAME_rehash: [ok, table, uaf, hang].  alloc_ok tells whether both calls of
\* MALLOC_FN return memory.  The while loop is never entered a second time:
\* every path through its body returns.
rehash(t, bucket_count, alloc_ok) ==
  IF ~alloc_ok THEN [ok |-> FALSE, table |-> t, uaf |-> FALSE, hang |-> FALSE]
  ELSE
    The({
      LET ptr == IF r.frees > 0 THEN "freed" ELSE "heap"
      IN [ok |-> TRUE,
          table |-> [r.table EXCEPT !.metadata_ptr = ptr, !.buckets_ptr = ptr],
          uaf |-> r.uaf,
          hang |-> r.hang]
      : r \in {rehash_loop(t, NewTable(bucket_count), 0, 0, FALSE)}})

\* GrowTarget asking for four times the bucket count.
GrowTarget_Quadruple(t) ==
  IF t.bucket_count # 0 THEN t.bucket_count * 4 ELSE VT_MIN_NONZERO_BUCKET_COUNT

\* GrowTarget growing by half instead of doubling.
GrowTarget_ByHalf(t) ==
  IF t.bucket_count # 0 THEN t.bucket_count + t.bucket_count \div 2
  ELSE VT_MIN_NONZERO_BUCKET_COUNT

\* The bucket count NAME_insert and NAME_get_or_insert ask NAME_rehash for.
GrowTarget(t) ==
  IF t.bucket_count # 0 THEN t.bucket_count * 2 ELSE VT_MIN_NONZERO_BUCKET_COUNT

MaxBucketCount == VT_MIN_NONZERO_BUCKET_COUNT * Pow2(MaxDoublings)

\* The retry loop shared by NAME_insert (replace) and NAME_get_or_insert.
\* fail_at = n > 0 makes the allocation of the n-th call of NAME_rehash fail.
\* capped reports that the loop asked for more buckets than the model explores,
\* alloc_failed that the call ended because MALLOC_FN returned NULL.
RECURSIVE insert_loop(_, _, _, _, _, _)
insert_loop(t, key, val, replace, fail_at, uaf) ==
  LET accessed == uaf \/ t.metadata_ptr = "freed" IN
  The({
    IF r.hang \/ ~is_end(r.itr)
      THEN [itr |-> r.itr, table |-> r.table, uaf |-> accessed, hang |-> r.hang,
            capped |-> FALSE, rehashed |-> FALSE, alloc_failed |-> FALSE]
      ELSE IF GrowTarget(r.table) > MaxBucketCount
        THEN [itr |-> r.itr, table |-> r.table, uaf |-> accessed, hang |-> FALSE,
              capped |-> TRUE, rehashed |-> FALSE, alloc_failed |-> FALSE]
        ELSE
          The({
            IF ~h.ok
              THEN [itr |-> r.itr, table |-> h.table, uaf |-> accessed,
                    hang |-> FALSE, capped |-> FALSE, rehashed |-> FALSE,
                    alloc_failed |-> TRUE]
              ELSE IF h.hang
                THEN [itr |-> r.itr, table |-> h.table, uaf |-> accessed \/ h.uaf,
                      hang |-> TRUE, capped |-> FALSE, rehashed |-> TRUE,
                      alloc_failed |-> FALSE]
                ELSE
                  [insert_loop(h.table, key, val, replace,
                               IF fail_at > 0 THEN fail_at - 1 ELSE 0,
                               accessed \/ h.uaf)
                     EXCEPT !.rehashed = TRUE]
            : h \in {rehash(r.table, GrowTarget(r.table), fail_at # 1)}})
    : r \in {insert_raw(t, key, val, FALSE, replace)}})

\* NAME_insert
NAME_insert(t, key, val, fail_at) == insert_loop(t, key, val, TRUE, fail_at, FALSE)

\* Mutant: get_or_insert replaces an existing key, as insert does.
NAME_get_or_insert_Replacing(t, key, val, fail_at) ==
  insert_loop(t, key, val, TRUE, fail_at, FALSE)

\* NAME_get_or_insert
NAME_get_or_insert(t, key, val, fail_at) ==
  insert_loop(t, key, val, FALSE, fail_at, FALSE)

----------------------------------------------------------------------------
(* Lookup and erasure. *)

RECURSIVE get_loop(_, _, _, _, _)
get_loop(t, home_bucket, bucket, key, fuel) ==
  IF HashFragOf(t.metadata[bucket]) = VT_HASH_FRAG(HASH_FN(key))
     /\ CMPR_FN(t.buckets[bucket].key, key)
    THEN [itr |-> MakeItr(t, bucket, home_bucket), hang |-> FALSE]
    ELSE
      LET displacement == DisplacementOf(t.metadata[bucket]) IN
      IF displacement = VT_DISPLACEMENT_MASK
        THEN [itr |-> end_itr, hang |-> FALSE]
        ELSE IF fuel = 0
          THEN [itr |-> end_itr, hang |-> TRUE]
          ELSE get_loop(t, home_bucket,
                        (home_bucket + VT_QUADRATIC(displacement)) % t.bucket_count,
                        key, fuel - 1)

\* NAME_get: [itr, hang]
NAME_get(t, key) ==
  IF t.key_count = 0 THEN [itr |-> end_itr, hang |-> FALSE]
  ELSE
    LET home_bucket == HomeBucketOf(HASH_FN(key), t.bucket_count) IN
    IF InHomeBucketOf(t.metadata[home_bucket]) = 0
      THEN [itr |-> end_itr, hang |-> FALSE]
      ELSE get_loop(t, home_bucket, home_bucket, key, t.bucket_count)

\* Case 2 of NAME_erase_itr_raw: the bucket whose link leads to itr_bucket.
RECURSIVE erase_find_prev(_, _, _, _, _)
erase_find_prev(t, home_bucket, bucket, itr_bucket, fuel) ==
  LET next == (home_bucket + VT_QUADRATIC(DisplacementOf(t.metadata[bucket])))
                % t.bucket_count IN
  IF next = itr_bucket
    THEN [hang |-> FALSE, bucket |-> bucket]
    ELSE IF fuel = 0
      THEN [hang |-> TRUE, bucket |-> bucket]
      ELSE erase_find_prev(t, home_bucket, next, itr_bucket, fuel - 1)

\* Case 3 of NAME_erase_itr_raw: the last bucket of the chain and the one
\* before it, walking on from `bucket`.
RECURSIVE erase_find_last(_, _, _, _)
erase_find_last(t, home_bucket, bucket, fuel) ==
  LET next == (home_bucket + VT_QUADRATIC(DisplacementOf(t.metadata[bucket])))
                % t.bucket_count IN
  IF DisplacementOf(t.metadata[next]) = VT_DISPLACEMENT_MASK
    THEN [hang |-> FALSE, prev |-> bucket, bucket |-> next]
    ELSE IF fuel = 0
      THEN [hang |-> TRUE, prev |-> bucket, bucket |-> next]
      ELSE erase_find_last(t, home_bucket, next, fuel - 1)

\* NAME_erase_itr_raw: [advance, table, hang, moved_from], advance being the
\* returned bool and moved_from the bucket whose key was moved into the
\* erased bucket (NullPtr when none was).
erase_itr_raw(t, itr) ==
  LET itr_bucket == itr.metadatum
      t0 == [t EXCEPT !.key_count = @ - 1]
      m == t.metadata[itr_bucket]
  IN
  IF InHomeBucketOf(m) # 0 /\ DisplacementOf(m) = VT_DISPLACEMENT_MASK
    THEN [advance |-> TRUE, hang |-> FALSE, moved_from |-> NullPtr,
          table |-> Vacate([t0 EXCEPT !.metadata[itr_bucket] = VT_EMPTY],
                           itr_bucket)]
    ELSE
      LET home_bucket ==
            IF itr.home_bucket = SIZE_MAX
              THEN IF InHomeBucketOf(m) # 0
                     THEN itr_bucket
                     ELSE HomeBucketOf(HASH_FN(t.buckets[itr_bucket].key),
                                       t.bucket_count)
              ELSE itr.home_bucket
      IN
      IF DisplacementOf(m) = VT_DISPLACEMENT_MASK
        THEN
          The({
            IF p.hang
              THEN [advance |-> TRUE, hang |-> TRUE, moved_from |-> NullPtr,
                    table |-> t0]
              ELSE
                LET md1 == [t.metadata EXCEPT
                              ![p.bucket] = SetDisplacementMask(t.metadata[p.bucket])]
                    md2 == [md1 EXCEPT ![itr_bucket] = VT_EMPTY]
                IN [advance |-> TRUE, hang |-> FALSE, moved_from |-> NullPtr,
                    table |-> Vacate([t0 EXCEPT !.metadata = md2], itr_bucket)]
            : p \in {erase_find_prev(t, home_bucket, home_bucket, itr_bucket,
                                     t.bucket_count)}})
        ELSE
          The({
            IF l.hang
              THEN [advance |-> TRUE, hang |-> TRUE, moved_from |-> NullPtr,
                    table |-> t0]
              ELSE
                LET md1 == [t.metadata EXCEPT
                              ![itr_bucket] = ClearHashFrag(t.metadata[itr_bucket])
                                                + HashFragOf(t.metadata[l.bucket])]
                    md2 == [md1 EXCEPT ![l.prev] = SetDisplacementMask(md1[l.prev])]
                    md3 == [md2 EXCEPT ![l.bucket] = VT_EMPTY]
                IN [advance |-> ~(l.bucket > itr_bucket), hang |-> FALSE,
                    moved_from |-> l.bucket,
                    table |-> Vacate([t0 EXCEPT
                                        !.buckets[itr_bucket] = t.buckets[l.bucket],
                                        !.metadata = md3],
                                     l.bucket)]
            : l \in {erase_find_last(t, home_bucket, itr_bucket, t.bucket_count)}})

\* Mutant: erase removes the key and leaves key_count as it was.
NAME_erase_KeepsCount(t, key) ==
  The({
    IF g.hang THEN [ret |-> FALSE, table |-> t, hang |-> TRUE]
    ELSE IF is_end(g.itr) THEN [ret |-> FALSE, table |-> t, hang |-> FALSE]
    ELSE
      The({[ret |-> TRUE, table |-> [e.table EXCEPT !.key_count = t.key_count],
            hang |-> e.hang]
           : e \in {erase_itr_raw(t, g.itr)}})
    : g \in {NAME_get(t, key)}})

\* NAME_erase: [ret, table, hang]
NAME_erase(t, key) ==
  The({
    IF g.hang THEN [ret |-> FALSE, table |-> t, hang |-> TRUE]
    ELSE IF is_end(g.itr) THEN [ret |-> FALSE, table |-> t, hang |-> FALSE]
    ELSE
      The({[ret |-> TRUE, table |-> e.table, hang |-> e.hang]
           : e \in {erase_itr_raw(t, g.itr)}})
    : g \in {NAME_get(t, key)}})

----------------------------------------------------------------------------
(* Iteration. *)

\* Mutant: the lanes are scanned from the highest address down.
vt_first_nonzero_uint16_FromTop(lanes) ==
  IF lanes[3] # 0 THEN 3
  ELSE IF lanes[2] # 0 THEN 2
  ELSE IF lanes[1] # 0 THEN 1
  ELSE 0

\* vt_first_nonzero_uint16 on the four 16-bit lanes of the word read at a
\* metadatum, lane 0 being the one at the lowest address, as the builds with
\* intrinsics compute it (see vt_first_nonzero_uint16_gnuc).
vt_first_nonzero_uint16(lanes) ==
  IF lanes[0] # 0 THEN 0
  ELSE IF lanes[1] # 0 THEN 1
  ELSE IF lanes[2] # 0 THEN 2
  ELSE 3

\* NAME_fast_forward: [itr, oob].  oob reports a read beyond the metadata
\* array, whose length is bucket_count + 4.
RECURSIVE fast_forward(_, _)
fast_forward(t, itr) ==
  IF itr.metadatum + 3 > t.bucket_count + 3
    THEN [itr |-> itr, oob |-> TRUE]
    ELSE
      LET lanes == [i \in 0 .. 3 |-> t.metadata[itr.metadatum + i]] IN
      IF \E i \in 0 .. 3 : lanes[i] # 0
        THEN
          LET offset == vt_first_nonzero_uint16(lanes) IN
          [itr |-> [itr EXCEPT
                      !.data = IF @ = NullPtr THEN @ ELSE @ + offset,
                      !.metadatum = @ + offset,
                      !.home_bucket = SIZE_MAX],
           oob |-> FALSE]
        ELSE fast_forward(t, [itr EXCEPT
                                !.data = IF @ = NullPtr THEN @ ELSE @ + 4,
                                !.metadatum = @ + 4])

\* NAME_first
NAME_first(t) ==
  fast_forward(t, [data |-> IF t.buckets_ptr = "null" THEN NullPtr ELSE 0,
                   metadatum |-> 0,
                   metadata_end |-> t.bucket_count,
                   home_bucket |-> SIZE_MAX])

\* NAME_next stepping over one bucket more.
NAME_next_SkipsOne(t, itr) ==
  fast_forward(t, [itr EXCEPT
                     !.data = IF @ = NullPtr THEN @ ELSE @ + 2,
                     !.metadatum = @ + 2])

\* NAME_next
NAME_next(t, itr) ==
  fast_forward(t, [itr EXCEPT
                     !.data = IF @ = NullPtr THEN @ ELSE @ + 1,
                     !.metadatum = @ + 1])

\* Mutant: erase_itr advances the iterator whatever erase_itr_raw returned.
NAME_erase_itr_AlwaysNext(t, itr) ==
  The({
    IF e.hang
      THEN [itr |-> itr, table |-> e.table, hang |-> TRUE, oob |-> FALSE,
            advance |-> e.advance]
      ELSE
        The({[itr |-> n.itr, table |-> e.table, hang |-> FALSE, oob |-> n.oob,
              advance |-> TRUE]
             : n \in {NAME_next(e.table, itr)}})
    : e \in {erase_itr_raw(t, itr)}})

\* NAME_erase_itr: [itr, table, hang, oob, advance]
NAME_erase_itr(t, itr) ==
  The({
    IF e.hang
      THEN [itr |-> itr, table |-> e.table, hang |-> TRUE, oob |-> FALSE,
            advance |-> e.advance]
      ELSE IF e.advance
        THEN
          The({[itr |-> n.itr, table |-> e.table, hang |-> FALSE, oob |-> n.oob,
                advance |-> TRUE]
               : n \in {NAME_next(e.table, itr)}})
        ELSE [itr |-> itr, table |-> e.table, hang |-> FALSE, oob |-> FALSE,
              advance |-> FALSE]
    : e \in {erase_itr_raw(t, itr)}})

----------------------------------------------------------------------------
(* Resizing and clearing. *)

RECURSIVE min_bucket_count_loop(_, _)
min_bucket_count_loop(size, bucket_count) ==
  IF ExceedsMaxLoad(size, bucket_count)
    THEN min_bucket_count_loop(size, bucket_count * 2)
    ELSE bucket_count

\* NAME_min_bucket_count_for_size
min_bucket_count_for_size(size) ==
  IF size = 0 THEN 0 ELSE min_bucket_count_loop(size, VT_MIN_NONZERO_BUCKET_COUNT)

\* Mutant: reserve rehashes to the computed bucket count without comparing it
\* with the current one.
NAME_reserve_NoCheck(t, size, alloc_ok) ==
  IF size = 0
    THEN [ok |-> TRUE, table |-> t, uaf |-> FALSE, hang |-> FALSE,
          rehashed |-> FALSE]
    ELSE
      The({[ok |-> h.ok, table |-> h.table, uaf |-> h.uaf, hang |-> h.hang,
            rehashed |-> h.ok]
           : h \in {rehash(t, min_bucket_count_for_size(size), alloc_ok)}})

\* NAME_reserve: [ok, table, uaf, hang, rehashed]
NAME_reserve(t, size, alloc_ok) ==
  LET bucket_count == min_bucket_count_for_size(size) IN
  IF bucket_count <= t.bucket_count
    THEN [ok |-> TRUE, table |-> t, uaf |-> FALSE, hang |-> FALSE,
          rehashed |-> FALSE]
    ELSE
      The({[ok |-> h.ok, table |-> h.table, uaf |-> h.uaf, hang |-> h.hang,
            rehashed |-> h.ok]
           : h \in {rehash(t, bucket_count, alloc_ok)}})

\* NAME_shrink rehashing to the minimum bucket count even when the table
\* already has it.
NAME_shrink_AlwaysRehash(t, alloc_ok) ==
  LET bucket_count == min_bucket_count_for_size(t.key_count) IN
  IF bucket_count = 0
    THEN [ok |-> TRUE,
          table |-> [t EXCEPT
                       !.bucket_count = 0,
                       !.metadata = vt_placeholder_metadata_buffer,
                       !.metadata_ptr = "placeholder",
                       !.buckets = <<>>,
                       !.buckets_ptr = "freed"],
          uaf |-> FALSE, hang |-> FALSE, rehashed |-> FALSE]
    ELSE
      The({[ok |-> h.ok, table |-> h.table, uaf |-> h.uaf, hang |-> h.hang,
            rehashed |-> h.ok]
           : h \in {rehash(t, bucket_count, alloc_ok)}})

\* NAME_shrink: [ok, table, uaf, hang, rehashed].  When no key is left the
\* arrays are freed and the metadata pointer is set to the placeholder; the
\* buckets pointer is left as it was.
NAME_shrink(t, alloc_ok) ==
  LET bucket_count == min_bucket_count_for_size(t.key_count) IN
  IF bucket_count = t.bucket_count
    THEN [ok |-> TRUE, table |-> t, uaf |-> FALSE, hang |-> FALSE,
          rehashed |-> FALSE]
    ELSE IF bucket_count = 0
      THEN [ok |-> TRUE,
            table |-> [t EXCEPT
                         !.bucket_count = 0,
                         !.metadata = vt_placeholder_metadata_buffer,
                         !.metadata_ptr = "placeholder",
                         !.buckets = <<>>,
                         !.buckets_ptr = "freed"],
            uaf |-> FALSE, hang |-> FALSE, rehashed |-> FALSE]
      ELSE
        The({[ok |-> h.ok, table |-> h.table, uaf |-> h.uaf, hang |-> h.hang,
              rehashed |-> h.ok]
             : h \in {rehash(t, bucket_count, alloc_ok)}})

\* NAME_clear releasing the arrays as NAME_cleanup does.
NAME_clear_Releases(t) == InitTable

\* NAME_clear
NAME_clear(t) ==
  [t EXCEPT
     !.metadata = [i \in DOMAIN t.metadata |->
                     IF i < t.bucket_count THEN VT_EMPTY ELSE t.metadata[i]],
     !.buckets = [i \in DOMAIN t.buckets |-> UninitBucket],
     !.key_count = 0]

\* NAME_init_clone with the two memcpy calls replaced by copying the
\* pointers of source.
NAME_init_clone_Shallow(source, alloc_ok) ==
  IF source.bucket_count = 0
    THEN [ok |-> TRUE,
          table |-> [source EXCEPT !.metadata = vt_placeholder_metadata_buffer,
                                   !.metadata_ptr = "placeholder",
                                   !.buckets = <<>>,
                                   !.buckets_ptr = "null"],
          shared |-> FALSE]
    ELSE IF ~alloc_ok
      THEN [ok |-> FALSE,
            table |-> [NewTable(source.bucket_count) EXCEPT
                         !.key_count = source.key_count,
                         !.metadata_ptr = "freed",
                         !.buckets_ptr = "freed"],
            shared |-> FALSE]
      ELSE [ok |-> TRUE, table |-> source, shared |-> TRUE]

\* NAME_init_clone: [ok, table, shared].  table is what the function leaves in
\* *table; shared tells whether its arrays are the arrays of source.  The
\* arrays MALLOC_FN returns are distinct from every live allocation, so they
\* never are.  After a failed allocation both pointers have been passed to
\* FREE_FN, and the counts are those of source.
NAME_init_clone(source, alloc_ok) ==
  IF source.bucket_count = 0
    THEN [ok |-> TRUE,
          table |-> [source EXCEPT !.metadata = vt_placeholder_metadata_buffer,
                                   !.metadata_ptr = "placeholder",
                                   !.buckets = <<>>,
                                   !.buckets_ptr = "null"],
          shared |-> FALSE]
    ELSE IF ~alloc_ok
      THEN [ok |-> FALSE,
            table |-> [NewTable(source.bucket_count) EXCEPT
                         !.key_count = source.key_count,
                         !.metadata_ptr = "freed",
                         !.buckets_ptr = "freed"],
            shared |-> FALSE]
      ELSE [ok |-> TRUE,
            table |-> [source EXCEPT !.metadata_ptr = "heap", !.buckets_ptr = "heap"],
            shared |-> FALSE]

\* NAME_cleanup without the early return for a zero-bucket table.
NAME_cleanup_NoEarlyReturn(t) ==
  [table |-> InitTable,
   double_free |-> t.metadata_ptr # "heap" \/ t.buckets_ptr \notin {"heap", "null"}]

\* NAME_cleanup: [table, double_free].  With no destructors defined the
\* function reads bucket_count only, passes both pointers to FREE_FN and calls
\* NAME_init.  double_free tells that a pointer it passed to FREE_FN was not a
\* live allocation: freed before, or the placeholder (a null pointer is fine).
NAME_cleanup(t) ==
  IF t.bucket_count = 0
    THEN [table |-> t, double_free |-> FALSE]
    ELSE [table |-> InitTable,
          double_free |-> t.metadata_ptr # "heap" \/ t.buckets_ptr \notin {"heap", "null"}]

----------------------------------------------------------------------------
(* The state machine: one caller applies the API to one table, and applies  *)
(* the same operation to the reference map.  The caller passes insert and   *)
(* get_or_insert a key object tagged with the value it comes with, and      *)
(* looks keys up with a key object tagged 0.                                *)

\* MAX_LOAD is 0.9 by default; 0.25 lets a table of 8 buckets hold 2 keys, so
\* that few keys reach the load limit before they reach the displacement limit.
Configs(reliable) ==
  {[hash |-> "spread", max_load |-> [num |-> 9, den |-> 10], reliable |-> reliable],
   [hash |-> "spread", max_load |-> [num |-> 1, den |-> 4], reliable |-> reliable],
   [hash |-> "wrap", max_load |-> [num |-> 9, den |-> 10], reliable |-> reliable],
   [hash |-> "constant", max_load |-> [num |-> 9, den |-> 10], reliable |-> reliable]}

\* The sizes reserve is called with.
ReserveSizes == {0, MaxKey, MaxKey + 1, 2 * MaxKey + 2}

\* Which call of NAME_rehash within one API call fails to allocate: 0 is none.
CanFail == ~config.reliable /\ failures < MaxFailures
FailAts == IF CanFail THEN 0 .. MaxDoublings ELSE {0}
AllocOks == IF CanFail THEN BOOLEAN ELSE {TRUE}

NoCall ==
  [op |-> "init", key |-> 0, val |-> 0, itr |-> end_itr, ret |-> TRUE,
   rehashed |-> FALSE, had |-> 0]

IdleIter ==
  [phase |-> "idle", itr |-> end_itr, pred |-> {}, start |-> <<>>,
   visited |-> <<>>]

\* The predicates P of a loop that erases the keys satisfying P.
IterPreds ==
  {{}, Keys, {k \in Keys : k % 2 = 0}, {k \in Keys : k % 2 = 1},
   {k \in Keys : k % 3 = 0}}

\* No second table: the struct clone has not been passed to init_clone.  live
\* tells that init_clone succeeded on it and cleanup has not been called since,
\* shared that its array pointers equal those of table, ops how many calls
\* have changed either table since the clone was made.
NoClone == [live |-> FALSE, t |-> InitTable, shared |-> FALSE, ops |-> 0]

\* What a table whose array pointers equal those of another table holds after
\* a call has changed that other table from t to t2: the arrays as the call
\* left them when it kept them, pointers to freed memory when it replaced or
\* released them (every such call changes bucket_count).
Aliased(other, t, t2) ==
  IF t2.bucket_count = t.bucket_count
    THEN [other EXCEPT !.metadata = t2.metadata, !.buckets = t2.buckets]
    ELSE [other EXCEPT !.metadata_ptr = "freed", !.buckets_ptr = "freed"]

\* The clone after a call has changed table from t to t2.
CloneSeesCall(c, t, t2) ==
  IF ~c.live THEN c
  ELSE [c EXCEPT !.t = IF c.shared THEN Aliased(c.t, t, t2) ELSE c.t,
                 !.shared = c.shared /\ t2.bucket_count = t.bucket_count,
                 !.ops = @ + 1]

InitWith(reliable) ==
  /\ table = InitTable
  /\ clone = NoClone
  /\ ref = [k \in Keys |-> 0]
  /\ last = NoCall
  /\ fault = "none"
  /\ config \in Configs(reliable)
  /\ iter = IdleIter
  /\ failures = 0

Init == InitWith(TRUE)

InitFail == InitWith(FALSE)

\* The runs with two tables keep to the HASH_FN that spreads the keys: a clone
\* is a copy of the arrays, whatever chains they hold.
InitTwoTables == InitFail /\ config.hash = "spread"

\* The arrays of the table are memory the table owns.
Usable(t) == t.metadata_ptr # "freed"

CanCall == fault = "none" /\ Usable(table) /\ iter.phase # "running"

\* The actions bind the result of a call with \E r \in {call} so that the
\* call is evaluated once.
\*
\* How a call ended: normally, or by leaving defined behaviour.  A call that
\* accessed freed memory either goes on with the content found there or is
\* stopped by the allocator.
Faults(hang, uaf, oob) ==
  IF hang THEN {"hang"}
  ELSE IF uaf THEN {"uaf", "abort"}
  ELSE IF oob THEN {"oob"}
  ELSE {"none"}

Insert(key, val, fail_at) ==
  /\ CanCall
  /\ \E r \in {NAME_insert(table, KeyObj(key, val), val, fail_at)} :
     /\ ~r.capped
     /\ fault' \in Faults(r.hang, r.uaf, FALSE)
     /\ table' = r.table
     /\ ref' = IF ~r.hang /\ ~is_end(r.itr) THEN [ref EXCEPT ![key] = val] ELSE ref
     /\ last' = [op |-> "insert", key |-> key, val |-> val, itr |-> r.itr,
                 ret |-> ~is_end(r.itr), rehashed |-> r.rehashed, had |-> ref[key]]
     /\ failures' = IF r.alloc_failed THEN failures + 1 ELSE failures
  /\ iter' = IdleIter
  /\ clone' = CloneSeesCall(clone, table, table')
  /\ UNCHANGED config

GetOrInsert(key, val, fail_at) ==
  /\ CanCall
  /\ \E r \in {NAME_get_or_insert(table, KeyObj(key, val), val, fail_at)} :
     /\ ~r.capped
     /\ fault' \in Faults(r.hang, r.uaf, FALSE)
     /\ table' = r.table
     /\ ref' = IF ~r.hang /\ ~is_end(r.itr) /\ ref[key] = 0
                 THEN [ref EXCEPT ![key] = val] ELSE ref
     /\ last' = [op |-> "get_or_insert", key |-> key, val |-> val, itr |-> r.itr,
                 ret |-> ~is_end(r.itr), rehashed |-> r.rehashed, had |-> ref[key]]
     /\ failures' = IF r.alloc_failed THEN failures + 1 ELSE failures
  /\ iter' = IdleIter
  /\ clone' = CloneSeesCall(clone, table, table')
  /\ UNCHANGED config

Get(key) ==
  /\ CanCall
  /\ \E r \in {NAME_get(table, KeyObj(key, 0))} :
     /\ fault' \in Faults(r.hang, FALSE, FALSE)
     /\ last' = [op |-> "get", key |-> key, val |-> 0, itr |-> r.itr,
                 ret |-> ~is_end(r.itr), rehashed |-> FALSE, had |-> 0]
  /\ iter' = IdleIter
  /\ UNCHANGED <<table, ref, config, failures, clone>>

Erase(key) ==
  /\ CanCall
  /\ \E r \in {NAME_erase(table, KeyObj(key, 0))} :
     /\ fault' \in Faults(r.hang, FALSE, FALSE)
     /\ table' = r.table
     /\ last' = [op |-> "erase", key |-> key, val |-> 0, itr |-> end_itr,
                 ret |-> r.ret, rehashed |-> FALSE, had |-> ref[key]]
  /\ ref' = [ref EXCEPT ![key] = 0]
  /\ iter' = IdleIter
  /\ clone' = CloneSeesCall(clone, table, table')
  /\ UNCHANGED <<config, failures>>

\* itr = get( key ); if( !is_end( itr ) ) erase_itr( itr );
EraseItr(key) ==
  /\ CanCall
  /\ \E g \in {NAME_get(table, KeyObj(key, 0))} :
     \E r \in {IF g.hang \/ is_end(g.itr)
                 THEN [itr |-> g.itr, table |-> table, hang |-> g.hang,
                       oob |-> FALSE, advance |-> FALSE]
                 ELSE NAME_erase_itr(table, g.itr)} :
     /\ fault' \in Faults(r.hang, FALSE, r.oob)
     /\ table' = r.table
     /\ last' = [op |-> "erase_itr", key |-> key, val |-> 0, itr |-> r.itr,
                 ret |-> ~is_end(g.itr), rehashed |-> FALSE, had |-> ref[key]]
  /\ ref' = [ref EXCEPT ![key] = 0]
  /\ iter' = IdleIter
  /\ clone' = CloneSeesCall(clone, table, table')
  /\ UNCHANGED <<config, failures>>

Reserve(size, alloc_ok) ==
  /\ CanCall
  /\ min_bucket_count_for_size(size) <= MaxBucketCount
  /\ \E r \in {NAME_reserve(table, size, alloc_ok)} :
     /\ fault' \in Faults(r.hang, r.uaf, FALSE)
     /\ table' = r.table
     /\ last' = [op |-> "reserve", key |-> size, val |-> 0, itr |-> end_itr,
                 ret |-> r.ok, rehashed |-> r.rehashed, had |-> 0]
     /\ failures' = IF r.ok THEN failures ELSE failures + 1
  /\ iter' = IdleIter
  /\ clone' = CloneSeesCall(clone, table, table')
  /\ UNCHANGED <<ref, config>>

Shrink(alloc_ok) ==
  /\ CanCall
  /\ \E r \in {NAME_shrink(table, alloc_ok)} :
     /\ fault' \in Faults(r.hang, r.uaf, FALSE)
     /\ table' = r.table
     /\ last' = [op |-> "shrink", key |-> 0, val |-> 0, itr |-> end_itr,
                 ret |-> r.ok, rehashed |-> r.rehashed, had |-> 0]
     /\ failures' = IF r.ok THEN failures ELSE failures + 1
  /\ iter' = IdleIter
  /\ clone' = CloneSeesCall(clone, table, table')
  /\ UNCHANGED <<ref, config>>

Clear ==
  /\ CanCall
  /\ table' = NAME_clear(table)
  /\ ref' = [k \in Keys |-> 0]
  /\ last' = [op |-> "clear", key |-> 0, val |-> 0, itr |-> end_itr,
              ret |-> TRUE, rehashed |-> FALSE, had |-> 0]
  /\ iter' = IdleIter
  /\ clone' = CloneSeesCall(clone, table, table')
  /\ UNCHANGED <<fault, config, failures>>

\* How a call of FREE_FN on the arrays of a table ends.
FreeFaults(double_free) ==
  IF double_free THEN {"double_free", "abort"} ELSE {"none"}

\* cleanup( table ); the reference map is emptied with it.  The call does not
\* read the arrays, so the caller can make it on any table.
Cleanup ==
  /\ fault = "none"
  /\ iter.phase # "running"
  /\ \E d \in {NAME_cleanup(table)} :
     /\ table' = d.table
     /\ fault' \in FreeFaults(d.double_free)
  /\ ref' = [k \in Keys |-> 0]
  /\ last' = [op |-> "cleanup", key |-> 0, val |-> 0, itr |-> end_itr,
              ret |-> TRUE, rehashed |-> FALSE, had |-> 0]
  /\ iter' = IdleIter
  /\ clone' = CloneSeesCall(clone, table, table')
  /\ UNCHANGED <<config, failures>>

\* init_clone( &clone, &our_map ); cleanup( &our_map ); our_map = clone;
\* A failed init_clone is retried by the caller: the step leaves our_map alone.
CloneSwap(alloc_ok) ==
  /\ CanCall
  /\ \E c \in {NAME_init_clone(table, alloc_ok)} :
     \E d \in {NAME_cleanup(table)} :
     /\ table' = IF ~c.ok THEN table
                 ELSE IF c.shared
                   THEN [c.table EXCEPT !.metadata_ptr = "freed", !.buckets_ptr = "freed"]
                   ELSE c.table
     /\ fault' \in FreeFaults(c.ok /\ d.double_free)
     /\ last' = [op |-> "clone", key |-> 0, val |-> 0, itr |-> end_itr,
                 ret |-> c.ok, rehashed |-> FALSE, had |-> 0]
     /\ failures' = IF c.ok THEN failures ELSE failures + 1
  /\ iter' = IdleIter
  /\ UNCHANGED <<ref, config, clone>>

\* init_clone( &clone, &table ): from here on the caller holds two tables.
InitClone(alloc_ok) ==
  /\ CanCall
  /\ ~clone.live
  /\ \E c \in {NAME_init_clone(table, alloc_ok)} :
     /\ clone' = [live |-> c.ok, t |-> c.table, shared |-> c.shared, ops |-> 0]
     /\ last' = [op |-> "init_clone", key |-> 0, val |-> 0, itr |-> end_itr,
                 ret |-> c.ok, rehashed |-> FALSE, had |-> 0]
     /\ failures' = IF c.ok THEN failures ELSE failures + 1
  /\ iter' = IdleIter
  /\ UNCHANGED <<table, ref, fault, config>>

\* The caller changes table only MaxCloneOps times while the clone is live.
\* The values the table is filled with: one value before init_clone, every
\* value while the clone is live.
CloneVals == IF clone.live THEN Vals ELSE FailVals

CloneBudget == ~clone.live \/ clone.ops < MaxCloneOps

CloneCanCall ==
  /\ fault = "none"
  /\ clone.live
  /\ Usable(clone.t)
  /\ clone.ops < MaxCloneOps

\* The clone after one of the caller's calls changed its struct into t2.
CloneAfter(t2) ==
  [clone EXCEPT !.t = t2,
                !.shared = clone.shared /\ t2.bucket_count = clone.t.bucket_count,
                !.ops = @ + 1]

\* table after a call has changed the clone's struct into t2.
TableAfterCloneCall(t2) ==
  IF clone.shared THEN Aliased(table, clone.t, t2) ELSE table

\* insert( &clone, key, val )
CloneInsert(key, val) ==
  /\ CloneCanCall
  /\ \E r \in {NAME_insert(clone.t, KeyObj(key, val), val, 0)} :
     /\ ~r.capped
     /\ fault' \in Faults(r.hang, r.uaf, FALSE)
     /\ clone' = CloneAfter(r.table)
     /\ table' = TableAfterCloneCall(r.table)
     /\ last' = [op |-> "clone_insert", key |-> key, val |-> val, itr |-> r.itr,
                 ret |-> ~is_end(r.itr), rehashed |-> r.rehashed, had |-> 0]
  /\ UNCHANGED <<ref, config, iter, failures>>

\* erase( &clone, key )
CloneErase(key) ==
  /\ CloneCanCall
  /\ \E r \in {NAME_erase(clone.t, KeyObj(key, 0))} :
     /\ fault' \in Faults(r.hang, FALSE, FALSE)
     /\ clone' = CloneAfter(r.table)
     /\ table' = TableAfterCloneCall(r.table)
     /\ last' = [op |-> "clone_erase", key |-> key, val |-> 0, itr |-> end_itr,
                 ret |-> r.ret, rehashed |-> FALSE, had |-> 0]
  /\ UNCHANGED <<ref, config, iter, failures>>

\* clear( &clone )
CloneClear ==
  /\ CloneCanCall
  /\ \E t2 \in {NAME_clear(clone.t)} :
     /\ clone' = CloneAfter(t2)
     /\ table' = TableAfterCloneCall(t2)
  /\ last' = [op |-> "clone_clear", key |-> 0, val |-> 0, itr |-> end_itr,
              ret |-> TRUE, rehashed |-> FALSE, had |-> 0]
  /\ UNCHANGED <<ref, fault, config, iter, failures>>

\* cleanup( &clone ): the caller is back to one table.
CloneCleanup ==
  /\ fault = "none"
  /\ clone.live
  /\ \E d \in {NAME_cleanup(clone.t)} :
     /\ fault' \in FreeFaults(d.double_free)
     /\ table' = TableAfterCloneCall(d.table)
  /\ clone' = NoClone
  /\ last' = [op |-> "clone_cleanup", key |-> 0, val |-> 0, itr |-> end_itr,
              ret |-> TRUE, rehashed |-> FALSE, had |-> 0]
  /\ UNCHANGED <<ref, config, iter, failures>>

\* for( itr = first( table ); !is_end( itr ); ) ...
IterFirst(pred) ==
  /\ CanCall
  /\ \E f \in {NAME_first(table)} :
     /\ fault' \in Faults(FALSE, FALSE, f.oob)
     /\ iter' = [phase |-> "running", itr |-> f.itr, pred |-> pred,
                 start |-> ref, visited |-> <<>>]
     /\ last' = [op |-> "first", key |-> 0, val |-> 0, itr |-> f.itr,
                 ret |-> ~is_end(f.itr), rehashed |-> FALSE, had |-> 0]
  /\ UNCHANGED <<table, ref, config, failures, clone>>

\* ... itr = P( itr.data->key ) ? erase_itr( table, itr ) : next( itr );
IterStep ==
  /\ fault = "none"
  /\ iter.phase = "running"
  /\ IF is_end(iter.itr)
       THEN /\ iter' = [iter EXCEPT !.phase = "done"]
            /\ UNCHANGED <<table, ref, last, fault>>
       ELSE
         LET key == table.buckets[iter.itr.data].key.id IN
         /\ Len(iter.visited) <= MaxKey
         /\ IF key \in iter.pred
              THEN \E r \in {NAME_erase_itr(table, iter.itr)} :
                   /\ fault' \in Faults(r.hang, FALSE, r.oob)
                   /\ table' = r.table
                   /\ ref' = [ref EXCEPT ![key] = 0]
                   /\ iter' = [iter EXCEPT !.itr = r.itr,
                                           !.visited = Append(@, key)]
                   /\ last' = [op |-> "erase_itr", key |-> key, val |-> 0,
                               itr |-> r.itr, ret |-> TRUE, rehashed |-> FALSE, had |-> ref[key]]
              ELSE \E n \in {NAME_next(table, iter.itr)} :
                   /\ fault' \in Faults(FALSE, FALSE, n.oob)
                   /\ iter' = [iter EXCEPT !.itr = n.itr,
                                           !.visited = Append(@, key)]
                   /\ last' = [op |-> "next", key |-> key, val |-> 0,
                               itr |-> n.itr, ret |-> ~is_end(n.itr),
                               rehashed |-> FALSE, had |-> 0]
                   /\ UNCHANGED <<table, ref>>
  /\ UNCHANGED <<config, failures, clone>>

Next ==
  \/ \E key \in Keys, val \in Vals, fail_at \in FailAts : Insert(key, val, fail_at)
  \/ \E key \in Keys, val \in Vals, fail_at \in FailAts : GetOrInsert(key, val, fail_at)
  \/ \E key \in Keys : Get(key)
  \/ \E key \in Keys : Erase(key)
  \/ \E key \in Keys : EraseItr(key)
  \/ \E size \in ReserveSizes, alloc_ok \in AllocOks : Reserve(size, alloc_ok)
  \/ \E alloc_ok \in AllocOks : Shrink(alloc_ok)
  \/ Clear
  \/ Cleanup
  \/ \E alloc_ok \in AllocOks : CloneSwap(alloc_ok)
  \/ \E pred \in IterPreds : IterFirst(pred)
  \/ IterStep

\* A reliable allocator: MALLOC_FN never returns NULL.
Spec == Init /\ [][Next]_vars

\* The calls of a run under a fault-injecting allocator: the ones that
\* allocate, and the ones that read or erase what they left.
NextFail ==
  \/ \E key \in Keys, val \in FailVals, fail_at \in FailAts : Insert(key, val, fail_at)
  \/ \E key \in Keys, val \in FailVals, fail_at \in FailAts : GetOrInsert(key, val, fail_at)
  \/ \E key \in Keys : Get(key)
  \/ \E key \in Keys : Erase(key)
  \/ \E key \in Keys : EraseItr(key)
  \/ \E size \in ReserveSizes, alloc_ok \in AllocOks : Reserve(size, alloc_ok)
  \/ \E alloc_ok \in AllocOks : Shrink(alloc_ok)
  \/ Clear
  \/ Cleanup
  \/ \E alloc_ok \in AllocOks : CloneSwap(alloc_ok)

\* A fault-injecting allocator: a call of MALLOC_FN may return NULL.
SpecFail == InitFail /\ [][NextFail]_vars

\* The calls of a run that clones the table and goes on with both tables:
\* the calls that change a table, on either of them.
NextClone ==
  \/ CloneBudget /\ \E key \in Keys, val \in CloneVals : Insert(key, val, 0)
  \/ CloneBudget /\ \E key \in Keys : Erase(key)
  \/ CloneBudget /\ Clear
  \/ CloneBudget /\ Cleanup
  \/ \E alloc_ok \in AllocOks : InitClone(alloc_ok)
  \/ \E key \in Keys, val \in Vals : CloneInsert(key, val)
  \/ \E key \in Keys : CloneErase(key)
  \/ CloneClear
  \/ CloneCleanup

\* Two tables, init_clone under a fault-injecting allocator.
SpecClone == InitTwoTables /\ [][NextClone]_vars

----------------------------------------------------------------------------
(* What the caller observes. *)

\* The keys of the reference map.
RefKeys == {k \in Keys : ref[k] # 0}

\* get( table, k ) hits, and the bucket it points at holds key id k and val.
GetYields(t, k, val) ==
  \E g \in {NAME_get(t, KeyObj(k, 0))} :
    /\ ~g.hang
    /\ ~is_end(g.itr)
    /\ t.buckets[g.itr.data].key.id = k
    /\ t.buckets[g.itr.data].val = val

\* get( table, k ) returns the end iterator.
GetMisses(t, k) ==
  \E g \in {NAME_get(t, KeyObj(k, 0))} : ~g.hang /\ is_end(g.itr)

----------------------------------------------------------------------------
(* Claims. *)

\* C1: run side by side with the reference map, after every operation the
\* table can be read, and for every key k get(k) hits with the reference
\* map's value when k is in the reference map and returns end when it is not.
C1_GetAgreesWithReference ==
  /\ Usable(table)
  /\ \A k \in Keys :
       IF k \in RefKeys THEN GetYields(table, k, ref[k]) ELSE GetMisses(table, k)

\* C2: after every operation size() is the number of distinct keys inserted
\* and not since erased or cleared, i.e. the size of the reference map.
C2_SizeAgreesWithReference == NAME_size(table) = Cardinality(RefKeys)


Visited == {iter.visited[i] : i \in 1 .. Len(iter.visited)}

NoKeyVisitedTwice == Cardinality(Visited) = Len(iter.visited)

\* The keys the table held when the loop called first.
StartKeys == {k \in Keys : iter.start[k] # 0}

C8_FailureLeavesTableUnchanged ==
  [][(/\ last'.op \in {"insert", "get_or_insert", "reserve", "shrink"}
      /\ ~last'.ret
      /\ fault' = "none") =>
       /\ NAME_size(table') = NAME_size(table)
       /\ NAME_bucket_count(table') = NAME_bucket_count(table)
       /\ \A k \in Keys, v \in Vals :
            GetYields(table, k, v) => GetYields(table', k, v)]_vars

C10_InsertTerminates ==
  CanCall =>
    \A k \in Keys, v \in Vals :
      \A i \in {NAME_insert(table, KeyObj(k, v), v, 0)},
         g \in {NAME_get_or_insert(table, KeyObj(k, v), v, 0)} :
        ~i.capped /\ ~i.hang /\ ~g.capped /\ ~g.hang

\* The bucket counts a table can have besides 0: the powers of two from
\* VT_MIN_NONZERO_BUCKET_COUNT up, as far as the model follows them.
BucketCounts == {VT_MIN_NONZERO_BUCKET_COUNT * Pow2(e) : e \in 0 .. MaxDoublings + 1}

\* All powers of two up to the largest bucket count.
PowersOfTwo == {Pow2(e) : e \in 0 .. MaxDoublings + 4}

\* n <= B * MAX_LOAD
Suffices(n, B) == ~ExceedsMaxLoad(n, B)

\* B is the least member of S that suffices for n keys.
LeastSufficient(n, B, S) ==
  /\ B \in S
  /\ Suffices(n, B)
  /\ \A C \in S : Suffices(n, C) => B <= C

\* The keys and values a table stores: the content of its non-empty buckets.
Stored(t) ==
  {t.buckets[b] : b \in {i \in 0 .. t.bucket_count - 1 : t.metadata[i] # VT_EMPTY}}

C14_NoRehashAfterReserve ==
  [][(/\ last.op = "reserve"
      /\ last.ret
      /\ last'.op \in {"insert", "get_or_insert"}
      /\ fault' = "none"
      /\ NAME_size(table') <= last.key) =>
       /\ ~last'.rehashed
       /\ failures' = failures
       /\ NAME_bucket_count(table') = NAME_bucket_count(table)]_vars

\* C15: a successful shrink leaves bucket_count at the least bucket count the
\* table can have (a power of two, at least VT_MIN_NONZERO_BUCKET_COUNT) such
\* that size <= bucket_count * MAX_LOAD, or at 0 when size is 0, and every key
\* that get found before the call is found after it with the same value.
C15_ShrinkMinimalKeepsKeys ==
  [][(last'.op = "shrink" /\ last'.ret) =>
       /\ fault' = "none"
       /\ Usable(table')
       /\ IF NAME_size(table) = 0
          THEN NAME_bucket_count(table') = 0
          ELSE LeastSufficient(NAME_size(table), NAME_bucket_count(table'), BucketCounts)
       /\ \A k \in Keys, v \in Vals :
            GetYields(table, k, v) => GetYields(table', k, v)]_vars

----------------------------------------------------------------------------
(* The chain structure the header describes: what the metadata of a table
   says about where its keys are. *)

\* The buckets that hold a key.
Resident(t) == {b \in 0 .. t.bucket_count - 1 : t.metadata[b] # VT_EMPTY}

\* The home bucket of the key stored in bucket b.
HomeOf(t, b) == HomeBucketOf(HASH_FN(t.buckets[b].key), t.bucket_count)

\* The buckets whose metadatum has the in-home-bucket flag set.
ChainHeads(t) ==
  {h \in 0 .. t.bucket_count - 1 : InHomeBucketOf(t.metadata[h]) # 0}

\* The buckets met by following the displacement links from bucket, in order,
\* home_bucket being the bucket the displacements are relative to.  The walk
\* stops at the end-of-chain marker, or after fuel links.
RECURSIVE ChainWalk(_, _, _, _)
ChainWalk(t, home_bucket, bucket, fuel) ==
  LET displacement == DisplacementOf(t.metadata[bucket]) IN
  IF displacement = VT_DISPLACEMENT_MASK \/ fuel = 0
    THEN <<bucket>>
    ELSE <<bucket>> \o ChainWalk(t, home_bucket,
                                 (home_bucket + VT_QUADRATIC(displacement)) % t.bucket_count,
                                 fuel - 1)

\* The chain of home bucket h; a chain of a table in order has at most
\* bucket_count buckets, so a longer walk shows a cycle.
Chain(t, h) == ChainWalk(t, h, h, t.bucket_count)

\* The walk from h ended at the end-of-chain marker.
ChainEnds(t, h) ==
  \E c \in {Chain(t, h)} : DisplacementOf(t.metadata[c[Len(c)]]) = VT_DISPLACEMENT_MASK

\* The displacement, relative to h, at which the i-th bucket of h's chain
\* lies: 0 for the head, the link stored in its predecessor otherwise.
ChainDisplacement(t, c, i) ==
  IF i = 1 THEN 0 ELSE DisplacementOf(t.metadata[c[i - 1]])

\* I1, I2: the in-home-bucket flag of h is set exactly when a resident key has
\* home bucket h, and then bucket h holds such a key.
HomeFlagsInOrder(t) ==
  \A h \in 0 .. t.bucket_count - 1 :
    /\ (h \in ChainHeads(t)) <=> (\E b \in Resident(t) : HomeOf(t, b) = h)
    /\ h \in ChainHeads(t) => HomeOf(t, h) = h

\* P5, I3: the chain of every head h ends, and visits exactly the resident
\* buckets whose key has home bucket h, each once.
ChainsInOrder(t) ==
  \A h \in ChainHeads(t) :
    \E c \in {Chain(t, h)} :
      /\ ChainEnds(t, h)
      /\ \A i, j \in 1 .. Len(c) : c[i] = c[j] => i = j
      /\ {c[i] : i \in 1 .. Len(c)} = {b \in Resident(t) : HomeOf(t, b) = h}

\* I4: along every chain the displacement links increase strictly.
LinksIncrease(t) ==
  \A h \in ChainHeads(t) :
    \E c \in {Chain(t, h)} :
      /\ ChainEnds(t, h)
      /\ \A i \in 1 .. Len(c) - 1 :
           ChainDisplacement(t, c, i) < ChainDisplacement(t, c, i + 1)

\* I5, P6: every resident bucket lies on the chain of exactly one head, at
\* exactly one position.
OneChainEach(t) ==
  \A b \in Resident(t) :
    Cardinality({<<h, i>> \in ChainHeads(t) \X (1 .. t.bucket_count + 1) :
                   \E c \in {Chain(t, h)} : i <= Len(c) /\ c[i] = b}) = 1

\* C16: between any two public operations, for every bucket h the in-home-bucket flag of h is set if and only if some
\* resident key has home bucket h, and when it is set the key stored in h has
\* home bucket h.
C16_HomeFlags == HomeFlagsInOrder(table)

\* C17: between any two public operations, for every bucket h whose in-home flag is set, following the displacement links
\* from h up to the end-of-chain marker visits exactly the buckets holding the
\* resident keys whose home bucket is h, each once.
C17_ChainsVisitTheirKeys == ChainsInOrder(table)

\* C18: between any two public operations the table can be read, and along
\* every chain the displacement links increase strictly from the head to the
\* end-of-chain marker.
C18_LinksIncrease == Usable(table) /\ LinksIncrease(table)

\* C19: between any two public operations every non-empty bucket lies on the chain of exactly one head with the in-home
\* flag set, at one position of it: no orphan, no bucket linked twice.
C19_OneChainEach == OneChainEach(table)

\* What get( t, k ) returns: whether it hits, and the bucket it points at.
GetResult(t, k) ==
  The({[hang |-> g.hang,
        hit |-> ~g.hang /\ ~is_end(g.itr),
        bucket |-> IF g.hang \/ is_end(g.itr) THEN UninitBucket
                   ELSE t.buckets[g.itr.data]]
       : g \in {NAME_get(t, KeyObj(k, 0))}})

\* Two tables a caller cannot tell apart by size and get.
SameObserved(t1, t2) ==
  /\ Usable(t1)
  /\ Usable(t2)
  /\ NAME_size(t1) = NAME_size(t2)
  /\ \A k \in Keys : GetResult(t1, k) = GetResult(t2, k)

ValidBucketCount(n) ==
  n = 0 \/ (n >= VT_MIN_NONZERO_BUCKET_COUNT /\ n \in PowersOfTwo)

\* C20: after every operation, successful or not, bucket_count of the table
\* (and of a struct init_clone was called on) is 0 or a power of two that is
\* at least 8.
C20_BucketCountValid ==
  /\ ValidBucketCount(NAME_bucket_count(table))
  /\ ValidBucketCount(NAME_bucket_count(clone.t))

\* A table that has grown past the minimum and was then cloned: the clone
\* holds some keys and misses others.
C20_Witness ==
  /\ last.op = "clone"
  /\ last.ret
  /\ NAME_bucket_count(table) > VT_MIN_NONZERO_BUCKET_COUNT
  /\ \E k \in Keys : ref[k] = 0 /\ GetMisses(table, k)
  /\ \E k \in Keys : ref[k] # 0 /\ GetYields(table, k, ref[k])

\* The arrays obtained from MALLOC_FN that a table holds and has not passed
\* to FREE_FN.
Outstanding(t) ==
  (IF t.metadata_ptr = "heap" THEN 1 ELSE 0) + (IF t.buckets_ptr = "heap" THEN 1 ELSE 0)

\* C11: no execution frees an array twice or uses one after it was freed, and
\* once cleanup has been called the table holds no allocation.
C11_ReleasedExactlyOnce ==
  /\ fault \notin {"uaf", "abort", "double_free"}
  /\ last.op = "cleanup" => Outstanding(table) = 0

\* C21: after every operation, a table whose bucket_count is 0 has the
\* placeholder buffer as its metadata pointer and NULL as its buckets pointer.
C21_ZeroBucketsPlaceholderAndNull ==
  NAME_bucket_count(table) = 0 =>
    /\ table.metadata_ptr = "placeholder"
    /\ table.buckets_ptr = "null"

\* I7: the metadata array of a table that has buckets ends with four words
\* that have every bit set.
TrailingWords(t) ==
  t.bucket_count > 0 =>
    /\ DOMAIN t.metadata = 0 .. t.bucket_count + 3
    /\ \A i \in t.bucket_count .. t.bucket_count + 3 : t.metadata[i] = AllBitsSet

\* C22: after every operation the table can be read, and when bucket_count > 0
\* its metadata array has exactly four extra words at bucket_count ..
\* bucket_count + 3 that all have every bit set.
C22_TrailingWords == Usable(table) /\ TrailingWords(table)

\* C23: after every operation size <= bucket_count * MAX_LOAD, for the table
\* and for a live clone of it.
C23_WithinMaxLoad ==
  /\ NAME_size(table) * config.max_load.den
       <= NAME_bucket_count(table) * config.max_load.num
  /\ clone.live =>
       NAME_size(clone.t) * config.max_load.den
         <= NAME_bucket_count(clone.t) * config.max_load.num

\* An insert has filled the table to the last key its bucket count admits.
C23_Witness ==
  /\ last.op = "insert"
  /\ last.ret
  /\ last.had = 0
  /\ NAME_bucket_count(table) > 0
  /\ (NAME_size(table) + 1) * config.max_load.den
       > NAME_bucket_count(table) * config.max_load.num

\* C24: cleanup, on any table the caller can have, ends normally and leaves
\* exactly what init produces: size 0, bucket_count 0, the placeholder as
\* metadata and NULL as buckets.
C24_CleanupRestoresInit ==
  [][last'.op = "cleanup" =>
       /\ fault' = "none"
       /\ table' = InitTable]_vars

----------------------------------------------------------------------------
\* The placeholder metadata buffer, read through a zero-bucket table.
PlaceholderIntact(t) ==
  t.metadata_ptr = "placeholder" =>
    /\ t.bucket_count = 0
    /\ t.metadata = vt_placeholder_metadata_buffer

\* C25: no call writes to or frees the placeholder metadata buffer.  After
\* every call a table whose metadata pointer is the placeholder has zero
\* buckets and reads the buffer's four all-ones words; a call on such a table
\* commits no invalid free, and it either leaves the table on the
\* placeholder or moves it to arrays it allocated itself.
C25_PlaceholderReadOnly ==
  [][/\ PlaceholderIntact(table')
     /\ clone'.live => PlaceholderIntact(clone'.t)
     /\ table.metadata_ptr = "placeholder" =>
          /\ fault' = "none"
          /\ table'.metadata_ptr \in {"placeholder", "heap"}]_vars

C25_Witness ==
  /\ last.op \in {"clear", "erase"}
  /\ table.metadata_ptr = "placeholder"
  /\ table.bucket_count = 0

----------------------------------------------------------------------------
\* Destructor calls.  KEY_DTOR_FN and VAL_DTOR_FN are always called together
\* on the key and on the value of one bucket, so a call pair is recorded as
\* that bucket's element and the calls of one operation as a bag of elements.

BucketsBag(t, S) ==
  [e \in {t.buckets[b] : b \in S} |-> Cardinality({b \in S : t.buckets[b] = e})]

StoredBag(t) == BucketsBag(t, Resident(t))

\* NAME_insert_raw: the destructors run on the bucket where the chain walk
\* found the key, and only when replace is set.
insert_raw_dtors(t, key, unique, replace) ==
  IF t.bucket_count = 0 THEN EmptyBag
  ELSE
    The({
      IF InHomeBucketOf(t.metadata[home_bucket]) = 0 \/ unique THEN EmptyBag
      ELSE
        The({IF ~s.hang /\ s.found /\ replace
               THEN BucketsBag(t, {s.bucket}) ELSE EmptyBag
             : s \in {insert_raw_search(t, home_bucket, home_bucket, key,
                                        t.bucket_count)}})
      : home_bucket \in {HomeBucketOf(HASH_FN(key), t.bucket_count)}})

\* NAME_erase_itr_raw: the destructors run on the iterator's bucket.
erase_itr_raw_dtors(t, itr) ==
  IF is_end(itr) THEN EmptyBag ELSE BucketsBag(t, {itr.metadatum})

\* NAME_erase: NAME_get, then NAME_erase_itr_raw when the key was found.
NAME_erase_dtors(t, key) ==
  The({IF g.hang THEN EmptyBag ELSE erase_itr_raw_dtors(t, g.itr)
       : g \in {NAME_get(t, key)}})

\* NAME_clear: the destructors run on every bucket whose metadatum is not
\* empty.
NAME_clear_dtors(t) == BucketsBag(t, Resident(t))

\* NAME_cleanup: nothing for a zero-bucket table, NAME_clear otherwise.
NAME_cleanup_dtors(t) ==
  IF t.bucket_count = 0 THEN EmptyBag ELSE NAME_clear_dtors(t)

\* The destructor calls of the call that l describes, made on table t.  In
\* NAME_insert the first NAME_insert_raw decides: a key it does not find is
\* not stored, as long as every stored key is on its chain, which holds where
\* no allocation fails.  NAME_get, NAME_reserve, NAME_shrink and NAME_rehash
\* contain no destructor call.
DtorCalls(l, t, it) ==
  CASE l.op = "insert" -> insert_raw_dtors(t, KeyObj(l.key, l.val), FALSE, TRUE)
    [] l.op = "get_or_insert" ->
         insert_raw_dtors(t, KeyObj(l.key, l.val), FALSE, FALSE)
    [] l.op = "erase" -> NAME_erase_dtors(t, KeyObj(l.key, 0))
    [] l.op = "erase_itr" ->
         IF it.phase = "running"
           THEN erase_itr_raw_dtors(t, it.itr)
           ELSE NAME_erase_dtors(t, KeyObj(l.key, 0))
    [] l.op = "clear" -> NAME_clear_dtors(t)
    [] l.op = "cleanup" -> NAME_cleanup_dtors(t)
    [] OTHER -> EmptyBag

\* The element that the call l describes has put in the table.
InsertedBy(l) ==
  IF \/ l.op = "insert" /\ l.ret
     \/ l.op = "get_or_insert" /\ l.ret /\ l.had = 0
    THEN SetToBag({[key |-> KeyObj(l.key, l.val), val |-> l.val]})
    ELSE EmptyBag

DtorOps ==
  {"insert", "get_or_insert", "get", "erase", "erase_itr", "clear", "cleanup",
   "reserve", "shrink"}

\* C26: over every call, the elements stored before it plus the element it
\* inserted are the elements stored after it plus the elements it ran the
\* destructors on, each counted once: an element leaves the table through
\* its destructors and in no other way, and no surviving element is
\* destructed.
C26_DestructorsExactlyOnce ==
  [][last'.op \in DtorOps =>
       StoredBag(table) (+) InsertedBy(last')
         = StoredBag(table') (+) DtorCalls(last', table, iter)]_vars

----------------------------------------------------------------------------
\* The buckets of t whose key, other than `key`, is not in the same bucket
\* with the same value in t2.
Relocated(t, t2, key) ==
  {b \in Resident(t) :
     /\ ~CMPR_FN(t.buckets[b].key, key)
     /\ ~(b \in Resident(t2) /\ t2.buckets[b] = t.buckets[b])}

\* C27: an insert or get_or_insert that succeeds without a rehash leaves
\* every previously stored key, the one it inserts apart, in its bucket with
\* its value, except for at most one: the foreign occupant of the new key's
\* home bucket, which the new key then occupies and which is stored in a
\* bucket that was empty.
C27_RelocatesAtMostOne ==
  [][last'.op \in {"insert", "get_or_insert"} /\ last'.ret /\ ~last'.rehashed =>
       /\ Cardinality(Relocated(table, table', KeyObj(last'.key, 0))) <= 1
       /\ \A b \in Relocated(table, table', KeyObj(last'.key, 0)) :
            /\ b = HomeBucketOf(HASH_FN(KeyObj(last'.key, 0)), table.bucket_count)
            /\ InHomeBucketOf(table.metadata[b]) = 0
            /\ CMPR_FN(table'.buckets[b].key, KeyObj(last'.key, 0))
            /\ \E c \in Resident(table') \ Resident(table) :
                 table'.buckets[c] = table.buckets[b]]_vars

\* An insert without a rehash has put a new key in its home bucket, as the
\* only key of its chain, in a table that holds keys of other chains outside
\* their home buckets.
C27_Witness ==
  /\ last.op = "insert" /\ last.ret /\ ~last.rehashed /\ last.had = 0
  /\ table.key_count >= 3
  /\ \E h \in {HomeBucketOf(HASH_FN(KeyObj(last.key, 0)), table.bucket_count)} :
       /\ CMPR_FN(table.buckets[h].key, KeyObj(last.key, 0))
       /\ DisplacementOf(table.metadata[h]) = VT_DISPLACEMENT_MASK
       /\ \E c \in Resident(table) :
            /\ InHomeBucketOf(table.metadata[c]) = 0
            /\ c > h

----------------------------------------------------------------------------
\* The call has kept both arrays: same addresses, same bucket count, same
\* trailing words.
SameArrays(t, t2) ==
  /\ t2.bucket_count = t.bucket_count
  /\ t2.metadata_ptr = t.metadata_ptr
  /\ t2.buckets_ptr = t.buckets_ptr
  /\ DOMAIN t2.metadata = DOMAIN t.metadata
  /\ DOMAIN t2.buckets = DOMAIN t.buckets
  /\ \A i \in DOMAIN t.metadata : i >= t.bucket_count => t2.metadata[i] = t.metadata[i]

\* C28: erase, erase_itr, clear and get keep bucket_count and both arrays
\* and fail no allocation; clear leaves size 0 and every metadatum empty;
\* get leaves the table as it was.
C28_NoRehash ==
  [][last'.op \in {"erase", "erase_itr", "clear", "get"} =>
       /\ SameArrays(table, table')
       /\ failures' = failures
       /\ ~last'.rehashed
       /\ last'.op = "clear" =>
            /\ NAME_size(table') = 0
            /\ \A i \in 0 .. table'.bucket_count - 1 : table'.metadata[i] = VT_EMPTY
       /\ last'.op = "get" => table' = table]_vars

C28_Witness ==
  /\ last.op = "clear"
  /\ NAME_size(table) = 0
  /\ NAME_bucket_count(table) = 2 * VT_MIN_NONZERO_BUCKET_COUNT
  /\ table.metadata_ptr = "heap"

----------------------------------------------------------------------------
\* C29: a call that rehashed and reports success, retries after a failed
\* reinsertion included, has touched no freed array and leaves the table on
\* live arrays that hold every element stored before the call (and, after an
\* insert, the inserted one in place of an element of equal key).
C29_RehashRetryRestarts ==
  [][last'.op \in {"reserve", "shrink", "insert", "get_or_insert"}
       /\ last'.rehashed /\ last'.ret =>
       /\ fault' = "none"
       /\ Usable(table')
       /\ \A b \in Resident(table) :
            \/ table.buckets[b] \in Stored(table')
            \/ /\ last'.op = "insert"
               /\ CMPR_FN(table.buckets[b].key, KeyObj(last'.key, 0))]_vars

----------------------------------------------------------------------------
\* C30: on every table the caller can hold, a call of NAME_insert_raw that
\* returns the end iterator returns with the metadata array, the bucket
\* array and the size as they were, and with every stored key still found by
\* get.
C30_FailedInsertRawChangesNothing ==
  fault = "none" /\ Usable(table) =>
    \A key \in Keys : \A val \in Vals :
      \A r \in {insert_raw(table, KeyObj(key, val), val, FALSE, TRUE)} :
        is_end(r.itr) /\ ~r.hang =>
          /\ r.table.metadata = table.metadata
          /\ r.table.buckets = table.buckets
          /\ NAME_size(r.table) = NAME_size(table)
          /\ \A b \in Resident(table) :
               ~is_end(NAME_get(r.table, table.buckets[b].key).itr)

----------------------------------------------------------------------------
\* The iterators a caller can hold on the occupied bucket b: the home bucket
\* recorded (NAME_get, NAME_insert) or not (NAME_first, NAME_next).
ItrsAt(t, b) == {MakeItr(t, b, h) : h \in {SIZE_MAX, HomeOf(t, b)}}

\* The buckets above b whose key the erasure at b moved into b.
MovedDownInto(t, t2, b) ==
  {c \in Resident(t) :
     /\ c > b
     /\ t2.metadata[c] = VT_EMPTY
     /\ t2.metadata[b] # VT_EMPTY
     /\ t2.buckets[b] = t.buckets[c]}

\* C31: on every table the caller can hold and every occupied bucket b,
\* NAME_erase_itr_raw returns false exactly when it moved into b the key of a
\* bucket above b; when it returns true, b is empty or holds the key of a
\* bucket below b that is now empty.  NAME_erase_itr returns the iterator it
\* was given in the first case and NAME_next of it otherwise.
C31_AdvanceUnlessMovedDown ==
  fault = "none" /\ Usable(table) =>
    \A b \in Resident(table) : \A itr \in ItrsAt(table, b) :
      \A e \in {erase_itr_raw(table, itr)} : \A r \in {NAME_erase_itr(table, itr)} :
        ~e.hang =>
          /\ ~e.advance <=> MovedDownInto(table, e.table, b) # {}
          /\ e.advance =>
               \/ e.table.metadata[b] = VT_EMPTY
               \/ \E c \in Resident(table) :
                    /\ c < b
                    /\ e.table.metadata[c] = VT_EMPTY
                    /\ e.table.buckets[b] = table.buckets[c]
          /\ r.table = e.table
          /\ r.itr = IF e.advance THEN NAME_next(e.table, itr).itr ELSE itr

\* A table with a key whose erasure moves the tail of its chain down into
\* its bucket, and a key whose erasure moves the tail up into its bucket.
C31_Witness ==
  /\ fault = "none" /\ Usable(table)
  /\ \E b \in Resident(table) : \E itr \in ItrsAt(table, b) :
       /\ ~erase_itr_raw(table, itr).hang
       /\ ~erase_itr_raw(table, itr).advance
       /\ NAME_erase_itr(table, itr).itr = itr
  /\ \E b \in Resident(table) : \E itr \in ItrsAt(table, b) :
       /\ erase_itr_raw(table, itr).advance
       /\ erase_itr_raw(table, itr).table.metadata[b] # VT_EMPTY

----------------------------------------------------------------------------
\* The last bucket of the chain that the key of bucket b belongs to, and the
\* bucket before it on that chain (the last bucket itself in a chain of one).
TailOf(t, b) ==
  The({c[Len(c)] : c \in {Chain(t, HomeOf(t, b))}})

TailPredOf(t, b) ==
  The({IF Len(c) = 1 THEN c[1] ELSE c[Len(c) - 1] : c \in {Chain(t, HomeOf(t, b))}})

\* The erasure at bucket b turned t into t2 by emptying the tail of b's chain.
ErasedAtTail(t, t2, b) ==
  \E tail \in {TailOf(t, b)} : \E pred \in {TailPredOf(t, b)} :
    /\ t2.key_count = t.key_count - 1
    /\ Resident(t2) = Resident(t) \ {tail}
    /\ t2.metadata[tail] = VT_EMPTY
    /\ b # tail =>
         /\ t2.buckets[b] = t.buckets[tail]
         /\ HashFragOf(t2.metadata[b]) = HashFragOf(t.metadata[tail])
         /\ InHomeBucketOf(t2.metadata[b]) = InHomeBucketOf(t.metadata[b])
         /\ b # pred => DisplacementOf(t2.metadata[b]) = DisplacementOf(t.metadata[b])
    /\ pred # tail =>
         /\ DisplacementOf(t2.metadata[pred]) = VT_DISPLACEMENT_MASK
         /\ InHomeBucketOf(t2.metadata[pred]) = InHomeBucketOf(t.metadata[pred])
         /\ pred # b =>
              /\ HashFragOf(t2.metadata[pred]) = HashFragOf(t.metadata[pred])
              /\ t2.buckets[pred] = t.buckets[pred]
    /\ \A c \in Resident(t) \ {b, tail, pred} :
         /\ t2.metadata[c] = t.metadata[c]
         /\ t2.buckets[c] = t.buckets[c]
    /\ \A i \in DOMAIN t.metadata \ Resident(t) : t2.metadata[i] = t.metadata[i]

\* C32: on every table the caller can hold, erasing the key of an occupied
\* bucket b empties exactly the last bucket of b's chain; when that is not b,
\* its key, value and hash fragment are now in b, which keeps its flag and
\* link; the bucket before the last is the new end of the chain; every other
\* metadatum and bucket is as before.
C32_EraseEmptiesTail ==
  fault = "none" /\ Usable(table) =>
    \A b \in Resident(table) : \A itr \in ItrsAt(table, b) :
      \A e \in {erase_itr_raw(table, itr)} :
        ~e.hang /\ ErasedAtTail(table, e.table, b)

----------------------------------------------------------------------------
\* The fragment field of every occupied bucket of t holds the top bits of
\* the hash code of the key in that bucket.
HashFragsMatch(t) ==
  \A b \in Resident(t) :
    HashFragOf(t.metadata[b]) = VT_HASH_FRAG(HASH_FN(t.buckets[b].key))

\* C33: after every call the table is on live arrays in which the hash
\* fragment of every occupied bucket is that of the key the bucket stores.
C33_HashFragments == Usable(table) /\ HashFragsMatch(table)

\* The displacement field of every occupied bucket of t is the end-of-chain
\* value or a displacement from 1 to VT_DISPLACEMENT_MASK - 1, so that no
\* occupied bucket has the metadatum VT_EMPTY.
DisplacementsInRange(t) ==
  \A b \in 0 .. t.bucket_count - 1 :
    \/ t.metadata[b] = VT_EMPTY /\ t.buckets[b] = UninitBucket
    \/ /\ t.metadata[b] # VT_EMPTY
       /\ DisplacementOf(t.metadata[b]) \in 1 .. VT_DISPLACEMENT_MASK

\* C34: after every call the table is on live arrays in which the
\* displacement field of every occupied bucket is in range.
C34_Displacements == Usable(table) /\ DisplacementsInRange(table)

----------------------------------------------------------------------------
\* The smallest index from p on whose metadatum is not zero, the four
\* trailing words included; one past them when there is none.
NextNonZero(t, p) ==
  IF \E q \in p .. t.bucket_count + 3 : t.metadata[q] # 0
    THEN CHOOSE q \in p .. t.bucket_count + 3 :
           /\ t.metadata[q] # 0
           /\ \A r \in p .. q - 1 : t.metadata[r] = 0
    ELSE t.bucket_count + 4

\* f, the result of NAME_fast_forward started at index p of t, stops at the
\* first non-zero metadatum from p on, at or before index bucket_count, is
\* the end iterator exactly there, and read no word past the trailing four.
StopsAtNextNonZero(t, p, f) ==
  /\ ~f.oob
  /\ f.itr.metadatum = NextNonZero(t, p)
  /\ f.itr.metadatum <= t.bucket_count
  /\ is_end(f.itr) <=> f.itr.metadatum = t.bucket_count
  /\ f.itr.home_bucket = SIZE_MAX

----------------------------------------------------------------------------
\* NAME_insert_raw of key into t returns the end iterator although t has
\* buckets and room under the load limit: the displacement limit was hit.
DisplacementFailure(t, key) ==
  /\ t.bucket_count # 0
  /\ ~ExceedsMaxLoad(t.key_count + 1, t.bucket_count)
  /\ \E r \in {insert_raw(t, key, 0, FALSE, TRUE)} : ~r.hang /\ is_end(r.itr)

\* Neither the insert of key into t, nor the rehash to max(2 * bucket_count,
\* 8) buckets, nor the insert into the table so rehashed hits the
\* displacement limit.
NoDisplacementFailure(t, key) ==
  /\ ~DisplacementFailure(t, key)
  /\ \E h \in {rehash(t, IF t.bucket_count # 0 THEN 2 * t.bucket_count
                         ELSE VT_MIN_NONZERO_BUCKET_COUNT, TRUE)} :
       /\ ~h.uaf /\ ~h.hang
       /\ Usable(h.table)
       /\ ~DisplacementFailure(h.table, key)

\* C36: under MAX_LOAD 0.9 and 0.25, an insert of an absent key that meets
\* no displacement-limit failure keeps bucket_count when size + 1 is within
\* the load limit, and otherwise leaves exactly max(2 * bucket_count, 8)
\* buckets.
C36_GrowsByOneDoubling ==
  [][(/\ last'.op = "insert" /\ last'.had = 0 /\ last'.ret
      /\ fault' = "none"
      /\ NoDisplacementFailure(table, KeyObj(last'.key, last'.val))) =>
       NAME_bucket_count(table') =
         IF ExceedsMaxLoad(NAME_size(table) + 1, NAME_bucket_count(table))
           THEN IF 2 * NAME_bucket_count(table) > VT_MIN_NONZERO_BUCKET_COUNT
                  THEN 2 * NAME_bucket_count(table)
                  ELSE VT_MIN_NONZERO_BUCKET_COUNT
           ELSE NAME_bucket_count(table)]_vars

\* An insert has doubled a table of 8 buckets because of the load limit, its
\* keys being spread so that none is at the displacement limit.
C36_Witness ==
  /\ last.op = "insert" /\ last.had = 0 /\ last.ret /\ last.rehashed
  /\ fault = "none"
  /\ config.max_load.den = 4
  /\ NAME_bucket_count(table) = 2 * VT_MIN_NONZERO_BUCKET_COUNT
  /\ NAME_size(table) = 3

----------------------------------------------------------------------------
\* What NAME_reserve and NAME_shrink return when they have nothing to do.
NoOpOn(t) ==
  [ok |-> TRUE, table |-> t, uaf |-> FALSE, hang |-> FALSE, rehashed |-> FALSE]

\* C37: on every table, whether the allocator would succeed or fail, reserve
\* of a size whose minimum bucket count is not above the current one, and
\* shrink when the bucket count is the minimum for the key count, return true,
\* rehash nothing and leave the table as it is.
C37_ReserveShrinkNoOps ==
  fault = "none" =>
    \A alloc_ok \in BOOLEAN :
      /\ \A size \in ReserveSizes :
           min_bucket_count_for_size(size) <= NAME_bucket_count(table) =>
             NAME_reserve(table, size, alloc_ok) = NoOpOn(table)
      /\ min_bucket_count_for_size(NAME_size(table)) = NAME_bucket_count(table) =>
           NAME_shrink(table, alloc_ok) = NoOpOn(table)

\* After an allocation has failed, a shrink of a table that holds keys in the
\* minimum number of buckets has returned true.
C37_Witness ==
  /\ last.op = "shrink" /\ last.ret /\ ~last.rehashed
  /\ fault = "none"
  /\ failures > 0
  /\ NAME_size(table) > 0
  /\ min_bucket_count_for_size(NAME_size(table)) = NAME_bucket_count(table)
  /\ \E size \in ReserveSizes :
       /\ size > 0
       /\ min_bucket_count_for_size(size) <= NAME_bucket_count(table)

----------------------------------------------------------------------------
\* C38: an insert or get_or_insert of a key that was inserted and not erased
\* returns a non-end iterator, rehashes nothing, fails no allocation and
\* leaves bucket_count and both arrays' identity as they were, whether or not
\* the allocator would fail.
C38_PresentKeyNeverGrows ==
  [][(last'.op \in {"insert", "get_or_insert"} /\ last'.had # 0) =>
       /\ last'.ret
       /\ ~last'.rehashed
       /\ failures' = failures
       /\ fault' = "none"
       /\ NAME_bucket_count(table') = NAME_bucket_count(table)
       /\ SameArrays(table, table')]_vars

----------------------------------------------------------------------------
ItrOps == {"insert", "get_or_insert", "get", "first", "next", "erase_itr"}

\* C39: a non-end iterator returned by insert, get_or_insert, get, first, next
\* or erase_itr points at an occupied bucket and its home_bucket field is
\* SIZE_MAX or the home bucket of the key in that bucket; and for every
\* occupied bucket NAME_erase_itr_raw gives the same result from the iterator
\* with the true home bucket as from the one with SIZE_MAX.
C39_HomeBucketField ==
  (fault = "none" /\ Usable(table)) =>
    /\ (last.op \in ItrOps /\ ~is_end(last.itr)) =>
         /\ last.itr.metadatum \in Resident(table)
         /\ last.itr.home_bucket
              \in {SIZE_MAX, HomeOf(table, last.itr.metadatum)}
    /\ \A b \in Resident(table) :
         erase_itr_raw(table, MakeItr(table, b, SIZE_MAX))
           = erase_itr_raw(table, MakeItr(table, b, HomeOf(table, b)))

\* erase_itr has returned its iterator unchanged, with the home bucket that
\* get had found, and the key moved into the bucket is away from that home.
C39_Witness ==
  /\ fault = "none" /\ Usable(table)
  /\ last.op = "erase_itr" /\ ~is_end(last.itr)
  /\ last.itr.home_bucket # SIZE_MAX
  /\ last.itr.metadatum \in Resident(table)
  /\ last.itr.home_bucket = HomeOf(table, last.itr.metadatum)
  /\ last.itr.home_bucket # last.itr.metadatum
  /\ InHomeBucketOf(table.metadata[last.itr.metadatum]) = 0

----------------------------------------------------------------------------
(* The implementations of vt_first_nonzero_uint16, on the word made of four
   lanes, lane 0 being the one at the lowest address. *)

\* Width of a lane (source: 16), the width of a metadatum of the model.
LaneBits == DisplacementBits + 5

WordBits == 4 * LaneBits

\* Bit n of the uint64_t read from the four lanes, bit 0 being the least
\* significant: a little-endian machine has lane 0 in the low bits, a
\* big-endian one in the high bits.
WordBit(lanes, little_endian, n) ==
  LET pos == n \div LaneBits
      lane == IF little_endian THEN pos ELSE 3 - pos
  IN (lanes[lane] \div Pow2(n % LaneBits)) % 2

SetBits(lanes, little_endian) ==
  {n \in 0 .. WordBits - 1 : WordBit(lanes, little_endian, n) = 1}

\* __builtin_ctzll and _BitScanForward64: the index of the lowest set bit.
ctzll(lanes, little_endian) ==
  CHOOSE n \in SetBits(lanes, little_endian) :
    \A k \in SetBits(lanes, little_endian) : n <= k

\* _BitScanReverse64: the index of the highest set bit.
BitScanReverse64(lanes, little_endian) ==
  CHOOSE n \in SetBits(lanes, little_endian) :
    \A k \in SetBits(lanes, little_endian) : k <= n

\* __builtin_clzll: the number of zero bits above the highest set bit.
clzll(lanes, little_endian) ==
  WordBits - 1 - BitScanReverse64(lanes, little_endian)

\* vt_first_nonzero_uint16 under __GNUC__.
vt_first_nonzero_uint16_gnuc(lanes, little_endian) ==
  IF little_endian
    THEN ctzll(lanes, little_endian) \div LaneBits
    ELSE clzll(lanes, little_endian) \div LaneBits

\* vt_first_nonzero_uint16 under _MSC_VER with _M_X64 or _M_ARM64.
vt_first_nonzero_uint16_msvc(lanes, little_endian) ==
  IF little_endian
    THEN ctzll(lanes, little_endian) \div LaneBits
    ELSE BitScanReverse64(lanes, little_endian) \div LaneBits

\* The values the two bytes of `quarter` that memcpy does not write can hold.
Indeterminate == {0, 1}

\* vt_first_nonzero_uint16 without intrinsics.  `half` is the first two lanes;
\* `quarter` is a uint32_t of which memcpy writes one lane, the other two
\* bytes keeping the value `indeterminate` they had before the call.
vt_first_nonzero_uint16_fallback(lanes, indeterminate) ==
  LET result == IF lanes[0] = 0 /\ lanes[1] = 0 THEN 2 ELSE 0 IN
  IF lanes[result] = 0 /\ indeterminate = 0 THEN result + 1 ELSE result

\* The builds: the implementation the preprocessor selects and the byte order
\* of the target.  _M_X64 and _M_ARM64 are little-endian targets.
Builds ==
  {[impl |-> "gnuc", little_endian |-> e] : e \in BOOLEAN}
    \cup {[impl |-> "msvc", little_endian |-> TRUE],
          [impl |-> "fallback", little_endian |-> TRUE],
          [impl |-> "fallback", little_endian |-> FALSE]}

\* The values a build of vt_first_nonzero_uint16 can return on the lanes.
FirstNonZeroResults(build, lanes) ==
  CASE build.impl = "gnuc" ->
         {vt_first_nonzero_uint16_gnuc(lanes, build.little_endian)}
    [] build.impl = "msvc" ->
         {vt_first_nonzero_uint16_msvc(lanes, build.little_endian)}
    [] OTHER ->
         {vt_first_nonzero_uint16_fallback(lanes, i) : i \in Indeterminate}

\* The four metadata read at metadatum p by NAME_fast_forward.
LanesAt(t, p) == [i \in 0 .. 3 |-> t.metadata[p + i]]

LowestNonZeroLane(lanes) ==
  CHOOSE i \in 0 .. 3 : lanes[i] # 0 /\ \A j \in 0 .. i - 1 : lanes[j] = 0

\* C40: on every group of four metadata that an iteration can read, of which
\* one at least is non-zero, every build of vt_first_nonzero_uint16 returns
\* the index of the non-zero lane at the lowest address, and nothing else.
C40_FirstNonZeroLane ==
  Usable(table) =>
    \A p \in 0 .. NAME_bucket_count(table) :
      (\E i \in 0 .. 3 : LanesAt(table, p)[i] # 0) =>
        \A build \in Builds :
          FirstNonZeroResults(build, LanesAt(table, p))
            = {LowestNonZeroLane(LanesAt(table, p))}

=============================================================================
